---------------------------- MODULE Spec2Model ----------------------------
(***************************************************************************)
(* Model of git-sync-service: the bidirectional GitHub <-> Gitea           *)
(* synchronisation engine (services/sync_engine.py), its scheduler         *)
(* (services/scheduler.py), the trigger surface (main.py,                  *)
(* services/webhook_handler.py) and the status store (database/models.py). *)
(*                                                                         *)
(* The service runs on one asyncio event loop: the code between two        *)
(* suspension points of a coroutine runs atomically.  The suspension       *)
(* points are the HTTP calls of the platform clients (list_repositories,   *)
(* get_repository, create_repository), the semaphore, asyncio.gather and   *)
(* asyncio.sleep.  The store calls (get_session ... commit) and every git  *)
(* command (Repo.clone_from, fetch, repo.git.push) are blocking calls:     *)
(* they do not suspend.  Each action below is one such atomic section.     *)
(***************************************************************************)
EXTENDS Naturals, Sequences, FiniteSets, Bags

(***************************************************************************)
(* Bounds of the model, and the finite universes the inputs are drawn from *)
(***************************************************************************)
MaxAttempts == 2
MaxGate == 2
MaxManual == 1
MaxCycles == 1
MaxSyncs == 2
MaxStarts == 2
MaxClock == 4
MaxResolves == 2

Repos == {"a", "b"}
Branches == {"dev", "main"}
Tags == {"v1"}
Sides == {"github", "gitea"}
Policies == {"manual", "github_wins", "gitea_wins"}
NoRef == "none"

\* The names _analyze_repository_differences takes for branch names: what
\* follows "origin/" or "gitea/" in the names of the clone's refs.  A clone
\* has refs/remotes/origin/HEAD next to its refs/remotes/origin/<branch>.
HeadRef == "HEAD"
RefNames == Branches \cup {HeadRef}

\* The orders in which the code's loops may visit the names: Python iterates
\* a set of strings in an arbitrary order.
Orders ==
    {o \in [1..Cardinality(RefNames) -> RefNames] :
        \A i, j \in 1..Cardinality(RefNames) : o[i] = o[j] => i = j}
OneOrder == {<<"dev", "main", "HEAD">>}

\* The branch a clone checks out: the only local branch (refs/heads/*) of a
\* fresh clone.  Every other branch is a remote-tracking ref.
DefaultBranch == "main"

(***************************************************************************)
(* The commit graph: c1 is the root, c2 and c3 are two children of c1, c4   *)
(* is a child of c2, and c5 merges c2 and c3.                              *)
(***************************************************************************)
Commits == {"c1", "c2", "c3", "c4", "c5"}
Parents ==
    [c \in Commits |-> IF c = "c1" THEN {}
                       ELSE IF c = "c4" THEN {"c2"}
                       ELSE IF c = "c5" THEN {"c2", "c3"}
                       ELSE {"c1"}]

RECURSIVE Reach(_)
Reach(c) == IF c = NoRef THEN {} ELSE {c} \cup UNION {Reach(p) : p \in Parents[c]}

\* repo.iter_commits("excl..incl"): the commits reachable from incl and not
\* from excl.
IterCommits(excl, incl) == Reach(incl) \ Reach(excl)

Other(side) == IF side = "github" THEN "gitea" ELSE "github"

RECURSIVE SeqFilter(_, _)
SeqFilter(s, S) ==
    IF s = <<>> THEN <<>>
    ELSE IF Head(s) \in S THEN <<Head(s)>> \o SeqFilter(Tail(s), S)
         ELSE SeqFilter(Tail(s), S)

VARIABLES
    settings,   \* Settings: conflict_resolution, max_concurrent_syncs, sync_tags, include/exclude lists
    gitenv,     \* the git side of the build: does `git fetch` create refs/remotes/<remote>/HEAD,
                \* and the refs of the working clone that cannot be read
    clock,      \* datetime.now(timezone.utc), in whole seconds
    remote,     \* the two platforms: remote[side][repo] = [exists, heads, tags]
    records,    \* table sync_repositories: records[repo]
    log,        \* table sync_logs, in insertion order
    conflicts,  \* table sync_conflicts
    tasks,      \* the sync_repository coroutines: a bag of task records
    calls,      \* the whole-fleet sync_repositories() coroutines, in creation order
    healthy,    \* SyncEngine._healthy
    sched       \* SyncScheduler: _running, the loop tasks and the loop's local variables

vars == <<settings, gitenv, clock, remote, records, log, conflicts, tasks, calls, healthy, sched>>

(***************************************************************************)
(* Settings                                                                *)
(***************************************************************************)
\* A webhook filter that knows the exclude-list only.
ShouldSyncRepositoryExcludeOnly(name) == name \notin settings.excluded

\* WebhookHandler._should_sync_repository.  Settings.included_repositories
\* is None when no include-list is configured, which is falsy in
\* `if included_repos and ...`.
ShouldSyncRepository(name) ==
    IF settings.included # {} /\ name \notin settings.included THEN FALSE
    ELSE IF name \in settings.excluded THEN FALSE
    ELSE TRUE

(***************************************************************************)
(* The status store                                                        *)
(***************************************************************************)
NoRecord ==
    [present |-> FALSE, sync_status |-> "pending", conflict_count |-> 0,
     last_sync |-> 0, github_url |-> FALSE, gitea_url |-> FALSE]

\* _ensure_repository_record: insert a `pending` record when none exists.
EnsureRepositoryRecord(recs, name, ghFound, gtFound) ==
    IF recs[name].present THEN recs
    ELSE [recs EXCEPT ![name] =
            [present |-> TRUE, sync_status |-> "pending", conflict_count |-> 0,
             last_sync |-> 0, github_url |-> ghFound, gitea_url |-> gtFound]]

\* An _update_repo_status that flags the conflict instead of counting it.
UpdateRepoStatusFlags(recs, name, status, stamp) ==
    IF ~recs[name].present THEN recs
    ELSE [recs EXCEPT ![name] =
            [@ EXCEPT !.sync_status = status,
                      !.last_sync = IF status = "synced" THEN stamp ELSE @,
                      !.conflict_count = IF status = "conflict" THEN 1 ELSE @]]

\* _update_repo_status: changes the record only when it exists.  `stamp`
\* stands for datetime.now().
UpdateRepoStatus(recs, name, status, stamp) ==
    IF ~recs[name].present THEN recs
    ELSE [recs EXCEPT ![name] =
            [@ EXCEPT !.sync_status = status,
                      !.last_sync = IF status = "synced" THEN stamp ELSE @,
                      !.conflict_count = IF status = "conflict" THEN @ + 1 ELSE @]]

\* _log_sync_result: one SyncLog row; the `source` column is never given.
LogSyncResult(lg, name, status, details) ==
    Append(lg, [repository_name |-> name, sync_status |-> status,
                details |-> details, source |-> "null", timestamp |-> clock])

\* cleanup_old_logs(days) (database/models.py): the rows whose timestamp is
\* before now - days are deleted.
SecondsPerDay == 24 * 60 * 60

CleanupOldLogs(days) ==
    LET cutoff_date == clock - days * SecondsPerDay
        Kept(row) == ~(row.timestamp < cutoff_date)
    IN  /\ log' = SelectSeq(log, Kept)
        /\ UNCHANGED <<settings, gitenv, clock, remote, records, conflicts, tasks, calls,
                       healthy, sched>>

\* create_conflict_record (database/models.py): one unresolved SyncConflict row.
CreateConflictRecord(cs, name, branch, ghCommit, gtCommit) ==
    cs \cup {[repository_name |-> name, conflict_type |-> "branch_diverged",
              branch_name |-> branch, github_commit |-> ghCommit,
              gitea_commit |-> gtCommit, resolved |-> FALSE]}


(***************************************************************************)
(* Git: refs of one repository on one platform, and pushes                 *)
(***************************************************************************)
NoHeads == [b \in Branches |-> NoRef]
NoTags == [t \in Tags |-> NoRef]
Absent == [exists |-> FALSE, heads |-> NoHeads, tags |-> NoTags]
EmptyRepo == [exists |-> TRUE, heads |-> NoHeads, tags |-> NoTags]
NoLabel == [act |-> "none", ref |-> "none"]

\* One `git push`: the platform it goes to, the ref updates it asks for,
\* whether it is forced, and the entry the code appends to `actions` after it.
PushCmd(to, updates, force, label) ==
    [to |-> to, updates |-> updates, force |-> force, label |-> label]

\* refs/heads/b:refs/heads/b, refs/tags/t:refs/tags/t, and the refspec
\* origin/n:n or gitea/n:n, whose source is a remote-tracking ref and whose
\* destination is not a full ref name.
HeadUpdate(b, c) == [kind |-> "head", ref |-> b, commit |-> c]
TagUpdate(t, c) == [kind |-> "tag", ref |-> t, commit |-> c]
TrackingUpdate(n, c) == [kind |-> "tracking", ref |-> n, commit |-> c]

HasRefs(st) ==
    \/ \E b \in Branches : st.heads[b] # NoRef
    \/ \E t \in Tags : st.tags[t] # NoRef

\* What git and the receiving platform accept.  A branch given by its full
\* name is created, fast-forwarded or (forced) overwritten; a tag is created
\* or (forced) overwritten.  The destination n of origin/n:n must be a branch
\* of the receiving side already: git finds no ref to create for it from a
\* source under refs/remotes ("not a full refname ... we gave up").
Accepts(st, u, force) ==
    IF u.kind = "head"
    THEN force \/ st.heads[u.ref] = NoRef \/ st.heads[u.ref] \in Reach(u.commit)
    ELSE IF u.kind = "tracking"
    THEN /\ u.ref \in Branches
         /\ st.heads[u.ref] # NoRef
         /\ (force \/ st.heads[u.ref] \in Reach(u.commit))
    ELSE force \/ st.tags[u.ref] = NoRef \/ st.tags[u.ref] = u.commit

\* A push fails when a ref update is not accepted, and when it has nothing
\* to send to a repository that has no ref at all ("No refs in common and
\* none specified").
PushRejected(st, cmd) ==
    \/ \E u \in cmd.updates : ~Accepts(st, u, cmd.force)
    \/ cmd.updates = {} /\ ~HasRefs(st)

ApplyPush(st, cmd) ==
    [st EXCEPT
       !.heads = [b \in Branches |->
                    IF \E u \in cmd.updates :
                         u.kind # "tag" /\ u.ref = b /\ Accepts(st, u, cmd.force)
                    THEN (CHOOSE u \in cmd.updates : u.kind # "tag" /\ u.ref = b).commit
                    ELSE st.heads[b]],
       !.tags = [t \in Tags |->
                    IF \E u \in cmd.updates :
                         u.kind = "tag" /\ u.ref = t /\ Accepts(st, u, cmd.force)
                    THEN (CHOOSE u \in cmd.updates : u.kind = "tag" /\ u.ref = t).commit
                    ELSE st.tags[t]]]

\* The pushes of one attempt, in order.  rp = [github |-> .., gitea |-> ..] is
\* the repository on the two platforms; `net` is the position of the command
\* that fails in transport (0: none).  A failed or rejected push raises
\* GitCommandError: the commands after it are not run.  `why` tells the two
\* apart ("net": transport, "git": refused by git or by the platform).
RECURSIVE RunPushes(_, _, _, _, _, _)
RunPushes(rp, cmds, i, net, issued, done) ==
    IF i > Len(cmds)
    THEN [rp |-> rp, issued |-> issued, done |-> done, failed |-> FALSE, why |-> "none"]
    ELSE LET cmd == cmds[i]
             rp2 == [rp EXCEPT ![cmd.to] = ApplyPush(@, cmd)]
         IN  IF i = net
             THEN [rp |-> rp, issued |-> Append(issued, cmd), done |-> done,
                   failed |-> TRUE, why |-> "net"]
             ELSE IF PushRejected(rp[cmd.to], cmd)
             THEN [rp |-> rp2, issued |-> Append(issued, cmd), done |-> done,
                   failed |-> TRUE, why |-> "git"]
             ELSE RunPushes(rp2, cmds, i + 1, net, Append(issued, cmd), Append(done, cmd))

\* The `actions` list: one entry per completed command that has one.
RECURSIVE Labels(_)
Labels(done) ==
    IF done = <<>> THEN <<>>
    ELSE IF Head(done).label = NoLabel THEN Labels(Tail(done))
         ELSE <<Head(done).label>> \o Labels(Tail(done))

(***************************************************************************)
(* SyncEngine._analyze_repository_differences                              *)
(***************************************************************************)
\* The refs refs/remotes/origin/* of the working clone after Repo.clone_from:
\* one per branch of GitHub, and origin/HEAD, a symbolic ref to the default
\* branch (none when GitHub's HEAD names no branch, as in an empty repository).
OriginRefs(rp) ==
    [n \in RefNames |-> IF n = HeadRef THEN rp.github.heads[DefaultBranch]
                        ELSE rp.github.heads[n]]

\* The refs refs/remotes/gitea/* after create_remote and fetch: one per
\* branch of Gitea; gitea/HEAD only with a git whose fetch creates it.
GiteaRefs(rp) ==
    [n \in RefNames |-> IF n = HeadRef
                        THEN (IF gitenv.fetch_head THEN rp.gitea.heads[DefaultBranch]
                              ELSE NoRef)
                        ELSE rp.gitea.heads[n]]

\* A failing comparison aborts the pass: no branch is compared.
ComparableAborts(both) == IF both \cap gitenv.broken = {} THEN both ELSE {}

\* The branches on both platforms whose comparison completes: a comparison
\* that raises (the clone cannot read one of the two refs) is logged and the
\* loop goes on to the next branch, before anything was added to a list.
Comparable(both) == both \ gitenv.broken

\* An analysis that asks first whether GitHub has commits of its own.
AnalyzeGithubFirst(gh, gt) ==
    LET github_branches == {b \in RefNames : gh[b] # NoRef}
        gitea_branches == {b \in RefNames : gt[b] # NoRef}
        both == github_branches \cap gitea_branches
        differ == {b \in both : gh[b] # gt[b]}
        github_ahead(b) == IterCommits(gt[b], gh[b])
        gitea_ahead(b) == IterCommits(gh[b], gt[b])
        diverged == {}
    IN  [has_conflicts |-> diverged # {},
         github_ahead |-> {b \in differ : github_ahead(b) # {}},
         gitea_ahead |-> {b \in differ :
                             github_ahead(b) = {} /\ gitea_ahead(b) # {}},
         diverged_branches |-> diverged,
         new_github |-> github_branches \ gitea_branches,
         new_gitea |-> gitea_branches \ github_branches]

\* gh, gt: the remote-tracking refs origin/* and gitea/* of the working clone.
AnalyzeRepositoryDifferences(gh, gt) ==
    LET github_branches == {b \in RefNames : gh[b] # NoRef}
        gitea_branches == {b \in RefNames : gt[b] # NoRef}
        both == github_branches \cap gitea_branches
        differ == {b \in Comparable(both) : gh[b] # gt[b]}
        github_ahead(b) == IterCommits(gt[b], gh[b])
        gitea_ahead(b) == IterCommits(gh[b], gt[b])
        diverged == {b \in differ : github_ahead(b) # {} /\ gitea_ahead(b) # {}}
    IN  [has_conflicts |-> diverged # {},
         github_ahead |-> {b \in differ \ diverged : github_ahead(b) # {}},
         gitea_ahead |-> {b \in differ \ diverged :
                             github_ahead(b) = {} /\ gitea_ahead(b) # {}},
         diverged_branches |-> diverged,
         new_github |-> github_branches \ gitea_branches,
         new_gitea |-> gitea_branches \ github_branches]

\* The tags of the working clone: those cloned from GitHub, and those the
\* fetch from Gitea brings along where GitHub has none of that name.
LocalTags(rp) ==
    [t \in Tags |-> IF rp.github.tags[t] # NoRef THEN rp.github.tags[t]
                    ELSE rp.gitea.tags[t]]

\* The pushes of the branches, every one of them forced.
BranchCmdsAllForced(names, from, rp, act, force, order) ==
    LET s == SeqFilter(order, names)
        refs == IF from = "github" THEN OriginRefs(rp) ELSE GiteaRefs(rp)
    IN  [i \in 1..Len(s) |->
           PushCmd(Other(from), {TrackingUpdate(s[i], refs[s[i]])}, TRUE,
                   [act |-> act, ref |-> s[i]])]

\* One `repo.git.push(other, "<from>/<n>:<n>")` per name of `names`, in the
\* order of the list the analysis built.
BranchCmds(names, from, rp, act, force, order) ==
    LET s == SeqFilter(order, names)
        refs == IF from = "github" THEN OriginRefs(rp) ELSE GiteaRefs(rp)
    IN  [i \in 1..Len(s) |->
           PushCmd(Other(from), {TrackingUpdate(s[i], refs[s[i]])}, force,
                   [act |-> act, ref |-> s[i]])]

\* A simple sync that pushes the tags before the branches.
SimpleSyncCmdsTagsFirst(rp, diff, order) ==
    (IF settings.sync_tags
     THEN << PushCmd("gitea",
                     {TagUpdate(t, LocalTags(rp)[t]) :
                         t \in {x \in Tags : LocalTags(rp)[x] # NoRef}},
                     FALSE, NoLabel),
             PushCmd("github", {}, FALSE, [act |-> "synced_tags", ref |-> "none"]) >>
     ELSE <<>>)
    \o BranchCmds(diff.new_github, "github", rp, "pushed_to_gitea", FALSE, order)
    \o BranchCmds(diff.new_gitea, "gitea", rp, "pushed_to_github", FALSE, order)
    \o BranchCmds(diff.github_ahead, "github", rp, "synced_to_gitea", FALSE, order)
    \o BranchCmds(diff.gitea_ahead, "gitea", rp, "synced_to_github", FALSE, order)

\* _perform_simple_sync: the pushes it makes, in its order.
SimpleSyncCmds(rp, diff, order) ==
    BranchCmds(diff.new_github, "github", rp, "pushed_to_gitea", FALSE, order)
    \o BranchCmds(diff.new_gitea, "gitea", rp, "pushed_to_github", FALSE, order)
    \o BranchCmds(diff.github_ahead, "github", rp, "synced_to_gitea", FALSE, order)
    \o BranchCmds(diff.gitea_ahead, "gitea", rp, "synced_to_github", FALSE, order)
    \o (IF settings.sync_tags
        THEN << PushCmd("gitea",
                        {TagUpdate(t, LocalTags(rp)[t]) :
                            t \in {x \in Tags : LocalTags(rp)[x] # NoRef}},
                        FALSE, NoLabel),
                \* push origin "gitea/*:refs/tags/*": the pattern names no ref
                \* of the clone (its refs are refs/heads, refs/tags, refs/remotes).
                PushCmd("github", {}, FALSE, [act |-> "synced_tags", ref |-> "none"]) >>
        ELSE <<>>)

\* _handle_sync_conflicts under github_wins / gitea_wins: one forced push per
\* diverged branch.
ConflictCmds(rp, diff, order) ==
    IF settings.conflict_resolution = "github_wins"
    THEN BranchCmds(diff.diverged_branches, "github", rp, "github_wins", TRUE, order)
    ELSE IF settings.conflict_resolution = "gitea_wins"
    THEN BranchCmds(diff.diverged_branches, "gitea", rp, "gitea_wins", TRUE, order)
    ELSE <<>>

NoResult == [action |-> "none", details |-> <<>>]
NoError == [kind |-> "none", branches |-> {}]
Failure(kind) == [kind |-> kind, branches |-> {}]

\* What the body of the try block of sync_repository came to.
Body(kind, result, err, rp, issued) ==
    [kind |-> kind, result |-> result, err |-> err, rp |-> rp, issued |-> issued]

\* _handle_sync_conflicts
HandleSyncConflicts(rp, diff, net, order) ==
    IF settings.conflict_resolution = "manual"
    THEN Body("conflict", NoResult,
              [kind |-> "conflict", branches |-> diff.diverged_branches], rp, <<>>)
    ELSE LET run == RunPushes(rp, ConflictCmds(rp, diff, order), 1, net, <<>>, <<>>)
         IN  IF run.failed
             THEN Body("error", NoResult, Failure(run.why), run.rp, run.issued)
             ELSE Body("ok", [action |-> "conflict_resolved", details |-> Labels(run.done)],
                       NoError, run.rp, run.issued)

\* _perform_simple_sync
PerformSimpleSync(rp, diff, net, order) ==
    LET run == RunPushes(rp, SimpleSyncCmds(rp, diff, order), 1, net, <<>>, <<>>)
    IN  IF run.failed
        THEN Body("error", NoResult, Failure(run.why), run.rp, run.issued)
        ELSE Body("ok", [action |-> "synced", details |-> Labels(run.done)],
                  NoError, run.rp, run.issued)

\* _sync_existing_repositories: clone GitHub, fetch Gitea (gitOk: both worked),
\* analyse, then the simple sync or the conflict handling.
SyncExistingRepositories(rp, gitOk, net, order) ==
    LET diff == AnalyzeRepositoryDifferences(OriginRefs(rp), GiteaRefs(rp))
    IN  IF ~gitOk THEN Body("error", NoResult, Failure("clone"), rp, <<>>)
        ELSE IF ~diff.has_conflicts THEN PerformSimpleSync(rp, diff, net, order)
        ELSE HandleSyncConflicts(rp, diff, net, order)

\* The two pushes of _create_gitea_from_github / _create_github_from_gitea:
\* refs/heads/* (the clone's local branches) and refs/tags/*.
CreateCmds(target, clone) ==
    << PushCmd(target,
               {HeadUpdate(b, clone.heads[b]) :
                   b \in {x \in Branches : x = DefaultBranch /\ clone.heads[x] # NoRef}},
               FALSE, NoLabel),
       PushCmd(target,
               {TagUpdate(t, clone.tags[t]) : t \in {x \in Tags : clone.tags[x] # NoRef}},
               FALSE, NoLabel) >>

\* A _perform_bidirectional_sync that takes a repository found on neither
\* platform for a new one and creates it on Gitea.
PerformBidirectionalSyncCreates(rp, ghFound, gtFound, gitOk, net, order) ==
    IF ~ghFound /\ ~gtFound
    THEN Body("ok", [action |-> "created_gitea", details |-> <<>>], NoError,
              [rp EXCEPT !.gitea = EmptyRepo], <<>>)
    ELSE IF ghFound /\ gtFound
    THEN SyncExistingRepositories(rp, gitOk, net, order)
    ELSE Body("error", NoResult, Failure("clone"), rp, <<>>)

\* _perform_bidirectional_sync, but for the creation scenarios once the
\* existing side is cloned: neither side has the repository (ValueError),
\* both have it, or the clone of the only side that has it fails.
PerformBidirectionalSync(rp, ghFound, gtFound, gitOk, net, order) ==
    IF ~ghFound /\ ~gtFound
    THEN Body("error", NoResult, Failure("not_found"), rp, <<>>)
    ELSE IF ghFound /\ gtFound
    THEN SyncExistingRepositories(rp, gitOk, net, order)
    ELSE Body("error", NoResult, Failure("clone"), rp, <<>>)

(***************************************************************************)
(* SyncEngine.sync_repository: one attempt                                 *)
(***************************************************************************)
\* The store calls of an attempt that may raise (a failed commit, a store
\* that is not reachable); F, below, is the set of those that do.
FaultPoints == {"begin", "ensure", "ok_status", "ok_log", "h_status", "h_log"}
NoFaults == {{}}
AnyFaults == SUBSET FaultPoints

\* Where a push sequence may fail in transport: nowhere (0) or at one command.
NoNetFailure == {0}
NetChoices == 0..(Cardinality(RefNames) + 2)

\* via: "direct"  sync_repository run as a background task (webhooks),
\*      "engine"  sync_repositories(repo_name) (manual trigger with a name),
\*      "fleet"   sync_with_semaphore inside a whole-fleet sync_repositories(),
\*      "resolve" no attempt: a resolve_conflict call, kept with its response.
NewTask(repo, source, via, call) ==
    [repo |-> repo, source |-> source, via |-> via, call |-> call,
     pc |-> IF via = "fleet" THEN "sem" ELSE "new",
     gh |-> "unknown", clone |-> Absent, outcome |-> "none", err |-> NoError,
     result |-> NoResult, issued |-> <<>>, logged |-> 0]

Tasks == BagToSet(tasks)

Replace(t, t2) == (tasks (-) SetToBag({t})) (+) SetToBag({t2})

Rp(name) == [github |-> remote.github[name], gitea |-> remote.gitea[name]]

\* datetime.now(), as a logical time: the number of log rows written so far.
Now == Len(log) + 1

ErrorDetails == [action |-> "error", details |-> <<>>]

\* Handlers that log and then swallow the exception.
HandlerSwallows(recs, lg, name, status, err, F) ==
    [records |-> UpdateRepoStatus(recs, name, status, Now),
     log |-> LogSyncResult(lg, name, status, ErrorDetails),
     outcome |-> "returned", err |-> err, result |-> NoResult, logged |-> 1]

\* The except handlers of sync_repository (lines 163-173): status, log, raise.
\* A store call that raises inside a handler leaves the handler at once.
Handler(recs, lg, name, status, err, F) ==
    IF "h_status" \in F
    THEN [records |-> recs, log |-> lg, outcome |-> "raised_error",
          err |-> Failure("store"), result |-> NoResult, logged |-> 0]
    ELSE IF "h_log" \in F
    THEN [records |-> UpdateRepoStatus(recs, name, status, Now), log |-> lg,
          outcome |-> "raised_error", err |-> Failure("store"),
          result |-> NoResult, logged |-> 0]
    ELSE [records |-> UpdateRepoStatus(recs, name, status, Now),
          log |-> LogSyncResult(lg, name, status, ErrorDetails),
          outcome |-> IF status = "conflict" THEN "raised_conflict" ELSE "raised_error",
          err |-> err, result |-> NoResult, logged |-> 1]

\* An end of sync_repository that logs the success without its action list.
FinishDropsDetails(recs, name, body, F) ==
    IF body.kind = "conflict"
    THEN Handler(recs, log, name, "conflict", body.err, F)
    ELSE IF body.kind = "error"
    THEN Handler(recs, log, name, "failed", body.err, F)
    ELSE [records |-> UpdateRepoStatus(recs, name, "synced", Now),
          log |-> LogSyncResult(log, name, "success", NoResult),
          outcome |-> "returned", err |-> NoError, result |-> body.result,
          logged |-> 1]

\* The end of sync_repository (lines 156-173) for a try body that came to
\* `body`, with the records as the body left them.
Finish(recs, name, body, F) ==
    IF body.kind = "conflict"
    THEN Handler(recs, log, name, "conflict", body.err, F)
    ELSE IF body.kind = "error"
    THEN Handler(recs, log, name, "failed", body.err, F)
    ELSE IF "ok_status" \in F
    THEN Handler(recs, log, name, "failed", Failure("store"), F)
    ELSE IF "ok_log" \in F
    THEN Handler(UpdateRepoStatus(recs, name, "synced", Now), log, name,
                 "failed", Failure("store"), F)
    ELSE [records |-> UpdateRepoStatus(recs, name, "synced", Now),
          log |-> LogSyncResult(log, name, "success", body.result),
          outcome |-> "returned", err |-> NoError, result |-> body.result,
          logged |-> 1]

\* An end of the attempt that gives the gate back only when it returned.
TaskEndKeepsGate(t, fin, body) ==
    /\ tasks' = Replace(t, [t EXCEPT !.pc = "done", !.outcome = fin.outcome,
                                     !.err = fin.err, !.result = fin.result,
                                     !.issued = @ \o body.issued,
                                     !.logged = fin.logged])
    /\ records' = fin.records
    /\ log' = fin.log
    /\ remote' = [remote EXCEPT !.github[t.repo] = body.rp.github,
                                !.gitea[t.repo] = body.rp.gitea]
    /\ calls' = IF t.via = "fleet" /\ fin.outcome = "returned"
                THEN [calls EXCEPT ![t.call].permits = @ + 1]
                ELSE calls
    /\ healthy' = IF t.via = "engine" /\ fin.outcome # "returned"
                  THEN FALSE ELSE healthy
    /\ UNCHANGED <<settings, gitenv, clock, conflicts, sched>>

\* The attempt ends: its outcome goes to its caller.  sync_with_semaphore
\* releases the gate; sync_repositories(repo_name) clears the health flag
\* when the attempt raised (lines 133-136).
TaskEnd(t, fin, body) ==
    /\ tasks' = Replace(t, [t EXCEPT !.pc = "done", !.outcome = fin.outcome,
                                     !.err = fin.err, !.result = fin.result,
                                     !.issued = @ \o body.issued,
                                     !.logged = fin.logged])
    /\ records' = fin.records
    /\ log' = fin.log
    /\ remote' = [remote EXCEPT !.github[t.repo] = body.rp.github,
                                !.gitea[t.repo] = body.rp.gitea]
    /\ calls' = IF t.via = "fleet"
                THEN [calls EXCEPT ![t.call].permits = @ + 1]
                ELSE calls
    /\ healthy' = IF t.via = "engine" /\ fin.outcome # "returned"
                  THEN FALSE ELSE healthy
    /\ UNCHANGED <<settings, gitenv, clock, conflicts, sched>>

ApiError(name) == Body("error", NoResult, Failure("api"), Rp(name), <<>>)

\* Lines 138-147: the attempt starts (a fleet child first takes the gate),
\* marks the record `syncing` and asks GitHub for the repository.
TaskBegin(t, F) ==
    /\ \/ t.pc = "new"
       \/ t.pc = "sem" /\ calls[t.call].permits > 0
    /\ IF "begin" \in F
       THEN \* _update_repo_status raises before the try block
            /\ tasks' = Replace(t, [t EXCEPT !.pc = "done", !.outcome = "raised_error",
                                             !.err = Failure("store")])
            /\ healthy' = IF t.via = "engine" THEN FALSE ELSE healthy
            /\ UNCHANGED <<records, calls>>
       ELSE /\ tasks' = Replace(t, [t EXCEPT !.pc = "github"])
            /\ records' = UpdateRepoStatus(records, t.repo, "syncing", Now)
            /\ calls' = IF t.via = "fleet"
                        THEN [calls EXCEPT ![t.call].permits = @ - 1]
                        ELSE calls
            /\ UNCHANGED healthy
    /\ UNCHANGED <<settings, gitenv, clock, remote, log, conflicts, sched>>

\* Line 147 returns: github_client.get_repository answered or raised.
TaskGithubReply(t, apiErr, F) ==
    /\ t.pc = "github"
    /\ IF apiErr
       THEN TaskEnd(t, Finish(records, t.repo, ApiError(t.repo), F), ApiError(t.repo))
       ELSE /\ tasks' = Replace(t, [t EXCEPT !.pc = "gitea",
                                             !.gh = IF remote.github[t.repo].exists
                                                    THEN "found" ELSE "missing"])
            /\ UNCHANGED <<settings, gitenv, clock, remote, records, log, conflicts, calls,
                           healthy, sched>>

\* Lines 148-173: gitea_client.get_repository answered or raised; then the
\* record is ensured and _perform_bidirectional_sync runs up to its end, or
\* up to the create_repository call of the creation scenarios.
TaskGiteaReply(t, apiErr, gitOk, net, order, F) ==
    LET name == t.repo
        rp == Rp(name)
        ghFound == t.gh = "found"
        gtFound == rp.gitea.exists
        ensured == EnsureRepositoryRecord(records, name, ghFound, gtFound)
        from == IF ghFound THEN "github" ELSE "gitea"
        body == IF apiErr THEN ApiError(name)
                ELSE IF "ensure" \in F
                THEN Body("error", NoResult, Failure("store"), rp, <<>>)
                ELSE PerformBidirectionalSync(rp, ghFound, gtFound, gitOk, net, order)
        recs == IF apiErr \/ "ensure" \in F THEN records ELSE ensured
    IN  /\ t.pc = "gitea"
        /\ IF ~apiErr /\ "ensure" \notin F /\ ghFound # gtFound /\ gitOk
           THEN \* the existing side is cloned; create_repository is awaited
                /\ tasks' = Replace(t, [t EXCEPT !.pc = "create", !.clone = rp[from]])
                /\ records' = ensured
                /\ UNCHANGED <<settings, gitenv, clock, remote, log, conflicts, calls, healthy, sched>>
           ELSE TaskEnd(t, Finish(recs, name, body, F), body)

\* Lines 219-225 / 236-242: create_repository answered or raised (it raises
\* when the repository exists by now); then the two pushes to the new one.
TaskCreateReply(t, apiErr, net, F) ==
    LET name == t.repo
        rp == Rp(name)
        target == IF t.gh = "found" THEN "gitea" ELSE "github"
        created == [rp EXCEPT ![target] = EmptyRepo]
        run == RunPushes(created, CreateCmds(target, t.clone), 1, net, <<>>, <<>>)
        body == IF apiErr \/ rp[target].exists THEN ApiError(name)
                ELSE IF run.failed
                THEN Body("error", NoResult, Failure(run.why), run.rp, run.issued)
                ELSE Body("ok", [action |-> IF target = "gitea" THEN "created_gitea"
                                           ELSE "created_github",
                                 details |-> <<>>],
                          NoError, run.rp, run.issued)
    IN  /\ t.pc = "create"
        /\ TaskEnd(t, Finish(records, name, body, F), body)

(***************************************************************************)
(* SyncEngine.sync_repositories() without a name: the whole-fleet sync     *)
(***************************************************************************)
NewCall(origin) ==
    [origin |-> origin, pc |-> "list_github", gh_names |-> {}, names |-> {},
     permits |-> 0, outcome |-> "none", value |-> {}, at |-> clock,
     failed |-> "none"]

\* No loop task: the state of a SyncScheduler after __init__.  `live` counts
\* the loop tasks that were created and have not exited; loop, call, last,
\* cur and until are the position and the locals of the task in _task:
\* last is last_sync_time, cur is current_time, until is the time the sleep
\* it is in ends.  `starts` counts the calls of start() since the scheduler
\* was last not running (a history variable).
NoLoop == [running |-> FALSE, loop |-> "none", call |-> 0, live |-> 0,
           last |-> 0, cur |-> 0, until |-> 0, starts |-> 0]

\* Line 82: min(60, sync_interval // 10).
PollSleep ==
    IF settings.sync_interval \div 10 < 60 THEN settings.sync_interval \div 10 ELSE 60

\* A loop that ends when its sync_repositories() call raises.
SchedAfterGivesUp(c, outcome) ==
    IF calls[c].origin = "scheduled"
    THEN IF outcome = "returned"
         THEN [sched EXCEPT !.loop = "sleep", !.call = 0, !.last = sched.cur,
                            !.until = clock + PollSleep]
         ELSE [sched EXCEPT !.loop = "none", !.call = 0]
    ELSE sched

\* The scheduler loop awaits its sync_repositories() call in its own task:
\* when the call ends the loop goes on at once.  Lines 69 and 79-82: the
\* call returned, last_sync_time = current_time, health check, sleep.  Lines
\* 72-76: the call raised, sleep(retry_delay).
SchedAfter(c, outcome) ==
    IF calls[c].origin = "scheduled"
    THEN IF outcome = "returned"
         THEN [sched EXCEPT !.loop = "sleep", !.call = 0, !.last = sched.cur,
                            !.until = clock + PollSleep]
         ELSE [sched EXCEPT !.loop = "retry", !.call = 0,
                            !.until = clock + settings.retry_delay]
    ELSE sched

\* The listing the call is waiting for, when it is waiting for one.
Listing(c) ==
    IF calls[c].pc = "list_github" THEN "github"
    ELSE IF calls[c].pc = "list_gitea" THEN "gitea" ELSE "none"

\* except Exception (lines 133-136): the listing raised (`failed` keeps
\* which one).
CallRaises(c) ==
    /\ calls' = [calls EXCEPT ![c] = [@ EXCEPT !.pc = "done", !.outcome = "raised",
                                               !.failed = Listing(c)]]
    /\ healthy' = FALSE
    /\ sched' = SchedAfter(c, "raised")
    /\ UNCHANGED <<settings, gitenv, clock, remote, records, log, conflicts, tasks>>

CallReturns(c) ==
    /\ calls' = [calls EXCEPT ![c] = [@ EXCEPT !.pc = "done", !.outcome = "returned"]]
    /\ sched' = SchedAfter(c, "returned")
    /\ UNCHANGED <<settings, gitenv, clock, remote, records, log, conflicts, tasks, healthy>>

\* discover_repositories, line 84: the GitHub listing answered or raised.
CallGithubList(c, apiErr) ==
    /\ calls[c].pc = "list_github"
    /\ IF apiErr THEN CallRaises(c)
       ELSE /\ calls' = [calls EXCEPT ![c] =
                   [@ EXCEPT !.pc = "list_gitea",
                             !.gh_names = {r \in Repos : remote.github[r].exists}]]
            /\ UNCHANGED <<settings, gitenv, clock, remote, records, log, conflicts, tasks,
                           healthy, sched>>

\* A filter in which the include-list outranks the exclude-list.
DiscoveredIncludeWins(gh_names, gt_names) ==
    {r \in gh_names \cup gt_names :
        IF settings.included # {} THEN r \in settings.included
        ELSE r \notin settings.excluded}

\* discover_repositories, lines 85-112: the names of both listings, filtered.
Discovered(gh_names, gt_names) ==
    LET Kept(listing) ==
           {name \in listing :
               /\ ~(settings.included # {} /\ name \notin settings.included)
               /\ ~(name \in settings.excluded)}
    IN  Kept(gh_names) \cup Kept(gt_names)

\* A discovery that makes do with GitHub's names when the Gitea listing raises.
CallGiteaListTolerant(c, apiErr) ==
    LET listed == IF apiErr THEN {} ELSE {r \in Repos : remote.gitea[r].exists}
        names == Discovered(calls[c].gh_names, listed)
    IN  /\ calls[c].pc = "list_gitea"
        /\ IF names = {} /\ ~apiErr THEN CallReturns(c)
           ELSE /\ calls' = [calls EXCEPT ![c] =
                       [@ EXCEPT !.pc = "gather", !.names = names,
                                 !.permits = settings.max_concurrent_syncs,
                                 !.failed = IF apiErr THEN "gitea" ELSE @]]
                /\ tasks' = tasks (+) SetToBag({NewTask(r, "auto", "fleet", c) : r \in names})
                /\ UNCHANGED <<settings, gitenv, clock, remote, records, log, conflicts, healthy, sched>>

\* discover_repositories, lines 85-112, and sync_repositories, lines 122-131:
\* the Gitea listing answered or raised; one sync_with_semaphore task per
\* discovered name is handed to asyncio.gather.
CallGiteaList(c, apiErr) ==
    LET names == Discovered(calls[c].gh_names, {r \in Repos : remote.gitea[r].exists})
    IN  /\ calls[c].pc = "list_gitea"
        /\ IF apiErr THEN CallRaises(c)
           ELSE IF names = {} THEN CallReturns(c)
           ELSE /\ calls' = [calls EXCEPT ![c] =
                       [@ EXCEPT !.pc = "gather", !.names = names,
                                 !.permits = settings.max_concurrent_syncs]]
                /\ tasks' = tasks (+) SetToBag({NewTask(r, "auto", "fleet", c) : r \in names})
                /\ UNCHANGED <<settings, gitenv, clock, remote, records, log, conflicts, healthy, sched>>

Children(c) == {t \in Tasks : t.via = "fleet" /\ t.call = c}

\* asyncio.gather without return_exceptions: the first exception of a child
\* ends the call.
CallGatherFailFast(c) ==
    /\ calls[c].pc = "gather"
    /\ IF \E t \in Children(c) : t.pc = "done" /\ t.outcome # "returned"
       THEN CallRaises(c)
       ELSE (\A t \in Children(c) : t.pc = "done") /\ CallReturns(c)

\* asyncio.gather(*tasks, return_exceptions=True), lines 130-131: it is done
\* when every child is, whatever the children raised; its list of results is
\* dropped, and the call returns None (`value` stays empty).
CallGatherDone(c) ==
    /\ calls[c].pc = "gather"
    /\ \A t \in Children(c) : t.pc = "done"
    /\ CallReturns(c)

(***************************************************************************)
(* The triggers: main.py and services/webhook_handler.py                   *)
(***************************************************************************)
\* The part of the bag `tasks` whose records are in S.
TasksIn(S) == [t \in Tasks \cap S |-> tasks[t]]

\* The single-repository triggers so far.
Singles == BagCardinality(TasksIn({t \in Tasks : t.via # "fleet"}))

\* The attempts the triggers so far may start: one for each single-repository
\* trigger, one per repository for each whole-fleet call.
Used == Singles + Cardinality(Repos) * Len(calls)

\* POST /sync/manual?repo_name=name: sync_repositories(name) in the background.
ManualSync(name) ==
    /\ tasks' = tasks (+) SetToBag({NewTask(name, "auto", "engine", 0)})
    /\ UNCHANGED <<settings, gitenv, clock, remote, records, log, conflicts, calls, healthy, sched>>

\* POST /sync/manual: sync_repositories() in the background.
ManualSyncAll ==
    /\ calls' = Append(calls, NewCall("manual"))
    /\ UNCHANGED <<settings, gitenv, clock, remote, records, log, conflicts, tasks, healthy, sched>>

\* The event kinds of a webhook: a push to a branch, a repository that was
\* created, a release that was published, and a kind the handlers ignore.
WebhookEvents == {"push", "repository", "release", "ping"}

\* handle_github_webhook / handle_gitea_webhook: is a sync required?  The
\* filter comes first; then the event kind decides (sync_branches and
\* sync_releases are at their defaults, true).
SyncRequired(side, name, event) ==
    IF ~ShouldSyncRepository(name) THEN FALSE
    ELSE event \in {"push", "repository", "release"}

\* POST /webhooks/github, /webhooks/gitea: sync_repository(name, side) in the
\* background when the handler asks for a sync.
Webhook(side, name, event) ==
    /\ IF SyncRequired(side, name, event)
       THEN tasks' = tasks (+) SetToBag({NewTask(name, side, "direct", 0)})
       ELSE UNCHANGED tasks
    /\ UNCHANGED <<settings, gitenv, clock, remote, records, log, conflicts, calls, healthy, sched>>

\* The resolve_conflict calls answered so far, as records in `tasks`.
Resolved(name, resolution) ==
    [NewTask(name, "auto", "resolve", 0) EXCEPT
        !.pc = "done", !.outcome = "returned",
        !.result = [action |-> "resolved", details |-> <<resolution>>]]

\* A resolve_conflict that takes the resolution for done: the record goes
\* back to `synced` and the repository's conflict rows are marked resolved.
ResolveConflictMarks(name, resolution) ==
    /\ tasks' = tasks (+) SetToBag({Resolved(name, resolution)})
    /\ records' = UpdateRepoStatus(records, name, "synced", Now)
    /\ conflicts' = {IF c.repository_name = name THEN [c EXCEPT !.resolved = TRUE] ELSE c :
                        c \in conflicts}
    /\ UNCHANGED <<settings, gitenv, clock, remote, log, calls, healthy, sched>>

\* POST /repositories/{repo_name}/conflict/resolve: SyncEngine.resolve_conflict
\* logs the request and returns {"status": "resolved", "repository": name,
\* "resolution": resolution}; it reads and writes nothing else.
ResolveConflict(name, resolution) ==
    /\ tasks' = tasks (+) SetToBag({Resolved(name, resolution)})
    /\ UNCHANGED <<settings, gitenv, clock, remote, records, log, conflicts, calls,
                   healthy, sched>>

(***************************************************************************)
(* SyncScheduler                                                           *)
(***************************************************************************)
\* start() (lines 25-35) without its test of _running: a loop task is
\* created by every call.
SchedStartAlways ==
    /\ sched' = [running |-> TRUE, loop |-> "sleep", call |-> 0,
                 live |-> sched.live + 1, last |-> clock, cur |-> clock,
                 until |-> clock, starts |-> sched.starts + 1]
    /\ UNCHANGED <<settings, gitenv, clock, remote, records, log, conflicts, tasks, calls, healthy>>

\* start(): a no-op when running; else the loop task is created, and it
\* takes the time for last_sync_time (line 57).
SchedStart ==
    /\ sched' = IF sched.running THEN [sched EXCEPT !.starts = @ + 1]
                ELSE [running |-> TRUE, loop |-> "sleep", call |-> 0,
                      live |-> sched.live + 1, last |-> clock, cur |-> clock,
                      until |-> clock, starts |-> sched.starts + 1]
    /\ UNCHANGED <<settings, gitenv, clock, remote, records, log, conflicts, tasks, calls, healthy>>

\* A loop that calls sync_repositories() in every iteration.
SchedStartSyncEarly ==
    /\ sched.running
    /\ sched.loop = "sleep"
    /\ clock >= sched.until
    /\ calls' = Append(calls, NewCall("scheduled"))
    /\ sched' = [sched EXCEPT !.loop = "sync", !.call = Len(calls) + 1, !.cur = clock]
    /\ UNCHANGED <<settings, gitenv, clock, remote, records, log, conflicts, tasks, healthy>>

\* _scheduler_loop, lines 59-68: the loop is at the top of an iteration, the
\* interval has elapsed since last_sync_time, and it calls
\* sync_repositories().
SchedStartSync ==
    /\ sched.running
    /\ sched.loop = "sleep"
    /\ clock >= sched.until
    /\ clock - sched.last >= settings.sync_interval
    /\ calls' = Append(calls, NewCall("scheduled"))
    /\ sched' = [sched EXCEPT !.loop = "sync", !.call = Len(calls) + 1, !.cur = clock]
    /\ UNCHANGED <<settings, gitenv, clock, remote, records, log, conflicts, tasks, healthy>>

\* Lines 59-64 and 79-82: the interval has not elapsed; health check, sleep.
SchedNotDue ==
    /\ sched.running
    /\ sched.loop = "sleep"
    /\ clock >= sched.until
    /\ clock - sched.last < settings.sync_interval
    /\ sched' = [sched EXCEPT !.cur = clock, !.until = clock + PollSleep]
    /\ UNCHANGED <<settings, gitenv, clock, remote, records, log, conflicts, tasks, calls, healthy>>

\* Lines 76-82: the retry delay after a failed scheduled sync is over;
\* health check, sleep.
SchedRetryOver ==
    /\ sched.loop = "retry"
    /\ clock >= sched.until
    /\ sched' = [sched EXCEPT !.loop = "sleep", !.until = clock + PollSleep]
    /\ UNCHANGED <<settings, gitenv, clock, remote, records, log, conflicts, tasks, calls, healthy>>

\* A second passes.
Tick(limit) ==
    /\ clock < limit
    /\ clock' = clock + 1
    /\ UNCHANGED <<settings, gitenv, remote, records, log, conflicts, tasks, calls, healthy, sched>>

\* What task.cancel() does to one sync_repository coroutine: CancelledError
\* is raised at its suspension point.  CancelledError is no Exception: no
\* except clause of sync_repository catches it.
Cancelled(t) ==
    [t EXCEPT !.pc = "done", !.outcome = "cancelled",
              !.err = Failure(IF t.pc = "sem" THEN "cancelled_waiting"
                              ELSE "cancelled_in_flight")]

\* What task.cancel() does to the loop's sync_repositories() call: the
\* CancelledError goes through asyncio.gather to every child not yet done.
CancelTasks(c) ==
    LET hit == {t \in Children(c) : t.pc # "done"}
        rest == [t \in Tasks \ hit |-> tasks[t]]
    IN  rest (+) SetToBag({Cancelled(t) : t \in hit})

\* A stop() that clears _running and leaves the loop task to itself.
SchedStopFlagOnly ==
    IF ~sched.running THEN UNCHANGED vars
    ELSE /\ sched' = [sched EXCEPT !.running = FALSE]
         /\ UNCHANGED <<calls, tasks>>
         /\ UNCHANGED <<settings, gitenv, clock, remote, records, log, conflicts, healthy>>

\* stop(): a no-op when not running; else the loop task is cancelled and
\* awaited: it exits, and its locals are gone with it.  The CancelledError
\* is raised at the await the loop is suspended at (lines 68, 76, 82) and
\* caught at line 84, where the loop breaks.
SchedStop ==
    IF ~sched.running THEN UNCHANGED vars
    ELSE /\ sched' = [NoLoop EXCEPT !.live = sched.live - 1]
         /\ IF sched.loop = "sync"
            THEN /\ calls' = [calls EXCEPT ![sched.call] =
                                [@ EXCEPT !.pc = "done", !.outcome = "cancelled"]]
                 /\ tasks' = CancelTasks(sched.call)
            ELSE UNCHANGED <<calls, tasks>>
         /\ UNCHANGED <<settings, gitenv, clock, remote, records, log, conflicts, healthy>>

(***************************************************************************)
(* The service                                                             *)
(***************************************************************************)
Repo(gh, gt) == [github |-> gh, gitea |-> gt]

\* Repository a is on both platforms: main has forked (c2 / c3), dev is one
\* commit ahead on GitHub, tag v1 is on GitHub only.  Repository b is on
\* GitHub only.
Fleet ==
    [a |-> Repo([exists |-> TRUE, heads |-> [dev |-> "c2", main |-> "c2"],
                 tags |-> [v1 |-> "c1"]],
                [exists |-> TRUE, heads |-> [dev |-> "c1", main |-> "c3"],
                 tags |-> NoTags]),
     b |-> Repo([exists |-> TRUE, heads |-> [dev |-> "c2", main |-> "c1"],
                 tags |-> [v1 |-> "c1"]],
                Absent)]

RemoteOf(fleet) == [side \in Sides |-> [r \in Repos |-> fleet[r][side]]]

InitService ==
    /\ records = [r \in Repos |-> NoRecord]
    /\ log = <<>>
    /\ conflicts = {}
    /\ tasks = EmptyBag
    /\ calls = <<>>
    /\ healthy = TRUE
    /\ sched = NoLoop

Init ==
    /\ settings \in [conflict_resolution : Policies,
                     max_concurrent_syncs : 1..MaxGate,
                     sync_tags : {TRUE}, included : {{}}, excluded : {{}},
                     sync_interval : {2}, retry_delay : {1}]
    /\ gitenv \in [fetch_head : {FALSE}, broken : {{}}]
    /\ clock = 0
    /\ remote = RemoteOf(Fleet)
    /\ InitService

\* The triggers, as many as the bounds allow.
Trigger ==
    \/ \E name \in Repos : Used + 1 <= MaxAttempts /\ ManualSync(name)
    \/ Used + Cardinality(Repos) <= MaxAttempts /\ ManualSyncAll
    \/ \E side \in Sides, name \in Repos, event \in WebhookEvents :
          Used + 1 <= MaxAttempts /\ Webhook(side, name, event)

Attempt(FS, NS, OS) ==
    \E t \in Tasks, F \in FS :
       \/ TaskBegin(t, F)
       \/ \E apiErr \in BOOLEAN : TaskGithubReply(t, apiErr, F)
       \/ \E apiErr \in BOOLEAN, gitOk \in BOOLEAN, net \in NS, order \in OS :
             TaskGiteaReply(t, apiErr, gitOk, net, order, F)
       \/ \E apiErr \in BOOLEAN, net \in NS : TaskCreateReply(t, apiErr, net, F)

FleetSync ==
    \E c \in 1..Len(calls) :
       \/ \E apiErr \in BOOLEAN : CallGithubList(c, apiErr)
       \/ \E apiErr \in BOOLEAN : CallGiteaList(c, apiErr)
       \/ CallGatherDone(c)

(***************************************************************************)
(* Spec: the service under its HTTP triggers (manual syncs and webhooks),  *)
(* with a store and a transport that work.                                 *)
(***************************************************************************)
Next == Trigger \/ Attempt(NoFaults, NoNetFailure, OneOrder) \/ FleetSync

Spec == Init /\ [][Next]_vars

(***************************************************************************)
(* SpecSched: the scheduler, started and stopped at any time, its          *)
(* scheduled whole-fleet syncs, and manual syncs of one repository.        *)
(***************************************************************************)
NextSched ==
    \/ \E name \in Repos : Singles < MaxManual /\ ManualSync(name)
    \/ Attempt(NoFaults, NoNetFailure, OneOrder)
    \/ FleetSync
    \/ sched.starts < MaxStarts /\ SchedStart
    \/ Len(calls) < MaxCycles /\ SchedStartSync
    \/ SchedNotDue
    \/ SchedRetryOver
    \/ SchedStop
    \/ Tick(MaxCycles + 2)

SpecSched == Init /\ [][NextSched]_vars

(***************************************************************************)
(* SpecLoop: the scheduler alone, with the clock: start() and stop() at    *)
(* any time, the loop's sleeps, and scheduled whole-fleet syncs of a fleet *)
(* filtered down to repository a, whose platform listings may raise.       *)
(***************************************************************************)
InitLoop ==
    /\ settings \in [conflict_resolution : {"github_wins"}, max_concurrent_syncs : {1},
                     sync_tags : {TRUE}, included : {{}}, excluded : {{"b"}},
                     sync_interval : {1, 2}, retry_delay : {1}]
    /\ gitenv \in [fetch_head : {FALSE}, broken : {{}}]
    /\ clock = 0
    /\ remote = RemoteOf(Fleet)
    /\ InitService

NextLoop ==
    \/ sched.starts < MaxStarts /\ SchedStart
    \/ Len(calls) < MaxSyncs /\ SchedStartSync
    \/ SchedNotDue
    \/ SchedRetryOver
    \/ SchedStop
    \/ Tick(MaxClock)
    \/ FleetSync
    \/ Attempt(NoFaults, NoNetFailure, OneOrder)

SpecLoop == InitLoop /\ [][NextLoop]_vars

(***************************************************************************)
(* SpecStore: webhook-triggered attempts, the clock, and the retention     *)
(* clean-up of the log table.                                              *)
(***************************************************************************)
NextStore ==
    \/ \E side \in Sides, name \in Repos, event \in WebhookEvents :
          Used + 1 <= MaxAttempts /\ Webhook(side, name, event)
    \/ Attempt(NoFaults, NoNetFailure, OneOrder)
    \/ Tick(MaxClock)
    \/ \E days \in 0..1 : CleanupOldLogs(days)

SpecStore == Init /\ [][NextStore]_vars

(***************************************************************************)
(* SpecFault: webhook-triggered attempts with a status store whose calls   *)
(* may raise.                                                              *)
(***************************************************************************)
NextFault ==
    \/ \E side \in Sides, name \in Repos, event \in WebhookEvents :
          Used + 1 <= MaxAttempts /\ Webhook(side, name, event)
    \/ Attempt(AnyFaults, NoNetFailure, OneOrder)

SpecFault == Init /\ [][NextFault]_vars

(***************************************************************************)
(* SpecGit: one attempt on repository a, over every placement of its       *)
(* branches and tag on the two platforms, every policy, and every point    *)
(* where a git command may fail.                                           *)
(***************************************************************************)
\* c2 and c3 are alike in the commit graph: GitHub's refs are taken from c1
\* and c2, Gitea's from c1 and c3.
RepoStates(values) ==
    {Absent} \cup [exists : {TRUE}, heads : [Branches -> values],
                   tags : [Tags -> values]]

InitGit ==
    /\ settings \in [conflict_resolution : Policies, max_concurrent_syncs : {1},
                     sync_tags : BOOLEAN, included : {{}}, excluded : {{}},
                     sync_interval : {1}, retry_delay : {1}]
    /\ gitenv \in [fetch_head : BOOLEAN, broken : {{}}]
    /\ clock = 0
    /\ \E gh \in RepoStates({NoRef, "c1", "c2"}), gt \in RepoStates({NoRef, "c1", "c3"}) :
          remote = RemoteOf([a |-> Repo(gh, gt), b |-> Repo(Absent, Absent)])
    /\ records = [r \in Repos |-> NoRecord]
    /\ log = <<>>
    /\ conflicts = {}
    /\ tasks = SetToBag({NewTask("a", "github", "direct", 0)})
    /\ calls = <<>>
    /\ healthy = TRUE
    /\ sched = NoLoop

NextGit == Attempt(NoFaults, NetChoices, Orders)

SpecGit == InitGit /\ [][NextGit]_vars

(***************************************************************************)
(* Properties                                                              *)
(***************************************************************************)
\* An attempt is in flight from the moment it has marked the record
\* `syncing` until it has written its terminal status.
InFlightPcs == {"github", "gitea", "create"}

InFlight(r) ==
    BagCardinality(TasksIn({t \in Tasks : t.repo = r /\ t.pc \in InFlightPcs}))

ActiveSyncs == BagCardinality(TasksIn({t \in Tasks : t.pc \in InFlightPcs}))

RealOutcomes == {"returned", "raised_conflict", "raised_error"}

\* C1: at most one sync_repository attempt per repository name is in flight
\* at any time, whatever the triggers and the gate size.
C1_OneAttemptPerRepository == \A r \in Repos : InFlight(r) <= 1

\* C2: the number of repository syncs active at one instant, counted over
\* all triggers, is at most max_concurrent_syncs.
C2_GateBoundsActiveSyncs == ActiveSyncs <= settings.max_concurrent_syncs

C4_FleetSyncReturnsResults ==
    \A c \in 1..Len(calls) :
       (calls[c].outcome = "returned" /\ calls[c].names # {}) =>
          {v.repo : v \in calls[c].value} = calls[c].names

\* The rows of sync_logs for repository r.
LogRows(r) == {i \in 1..Len(log) : log[i].repository_name = r}

\* The attempts on repository r that have returned or raised.
Ended(r) ==
    BagCardinality(TasksIn({t \in Tasks : /\ t.repo = r
                                          /\ t.pc = "done"
                                          /\ t.outcome \in RealOutcomes}))

\* C5: every attempt that has ended, in success, conflict or failure, has
\* appended exactly one SyncLog row for its repository, also when the
\* failure is one of a platform query or of a store write.
C5_OneLogEntryPerAttempt ==
    /\ \A r \in Repos : Cardinality(LogRows(r)) = Ended(r)
    /\ \A t \in Tasks : (t.pc = "done" /\ t.outcome \in RealOutcomes) => t.logged = 1

\* C6: while an attempt queries a platform for the repository, the record of
\* the repository exists and its status is `syncing`, the first attempt for
\* a name included.
C6_SyncingBeforePlatformQuery ==
    \A t \in Tasks :
       t.pc \in {"github", "gitea"} =>
          records[t.repo].present /\ records[t.repo].sync_status = "syncing"

\* C7: a record has status `syncing` only while an attempt for its name is
\* in flight; once every attempt has returned, raised or been cancelled the
\* status is pending, synced, conflict or failed.
C7_SyncingOnlyWhileInFlight ==
    \A r \in Repos : records[r].sync_status = "syncing" => InFlight(r) >= 1

\* The branches of repository r whose tips have forked: both platforms have
\* the branch and neither tip is an ancestor of the other.
RefDiverged(r) ==
    {b \in Branches :
        LET g == remote.github[r].heads[b]
            t == remote.gitea[r].heads[b]
        IN  g # NoRef /\ t # NoRef /\ g \notin Reach(t) /\ t \notin Reach(g)}

\* C8: under policy manual, an attempt on a repository with at least one
\* diverged branch issues no push at all, and when its analysis ran (no
\* platform query and no clone failed) it raises the conflict condition
\* naming exactly the diverged branches.
C8_ManualConflictPushesNothing ==
    \A t \in Tasks :
       (/\ t.pc = "done"
        /\ settings.conflict_resolution = "manual"
        /\ RefDiverged(t.repo) # {}) =>
          /\ t.issued = <<>>
          /\ t.outcome # "returned"
          /\ t.err.kind \notin {"api", "clone"} =>
                t.outcome = "raised_conflict" /\ t.err.branches = RefDiverged(t.repo)

\* The attempts on repository r whose try block raised SyncConflictError.
ConflictHits(r) ==
    BagCardinality(TasksIn({t \in Tasks : /\ t.repo = r
                                          /\ t.pc = "done"
                                          /\ t.err.kind = "conflict"}))

\* C9: the step in which an attempt hits manual-resolution-required leaves
\* the record with status `conflict`, appends one `conflict` row for the
\* repository to the log, and ends the attempt by raising the condition to
\* its caller.
C9_ConflictIsMarkedLoggedAndRaised ==
    [][\A r \in Repos :
          ConflictHits(r)' > ConflictHits(r) =>
             /\ records'[r].present /\ records'[r].sync_status = "conflict"
             /\ Len(log') = Len(log) + 1
             /\ log'[Len(log')].repository_name = r
             /\ log'[Len(log')].sync_status = "conflict"
             /\ \A t \in BagToSet(tasks') :
                   t.err.kind = "conflict" => t.outcome = "raised_conflict"]_vars

\* A manual sync of one repository hit the conflict: the record says
\* `conflict`, the last log row too, and sync_repositories saw the raise.
C9_Witness ==
    \E t \in Tasks :
       /\ t.via = "engine"
       /\ t.outcome = "raised_conflict"
       /\ ~healthy
       /\ records[t.repo].sync_status = "conflict"
       /\ log # <<>>
       /\ log[Len(log)].sync_status = "conflict"

\* C10: an attempt that ended in conflict has left one unresolved
\* ConflictRecord for each diverged branch.
C10_ConflictRecordPerDivergedBranch ==
    \A t \in Tasks :
       t.outcome = "raised_conflict" =>
          \A b \in t.err.branches :
             \E cr \in conflicts : /\ cr.repository_name = t.repo
                                   /\ cr.branch_name = b
                                   /\ ~cr.resolved

\* The positions of the forced pushes an attempt issued.
Forced(t) == {i \in 1..Len(t.issued) : t.issued[i].force}

\* The attempts that were not stopped from outside: no platform query, no
\* clone or fetch and no push transport failed.
Undisturbed(t) == t.pc = "done" /\ t.err.kind \notin {"api", "clone", "net", "store"}

Winner == IF settings.conflict_resolution = "github_wins" THEN "github" ELSE "gitea"

\* C11: under github_wins or gitea_wins an undisturbed attempt force-pushes
\* every diverged branch, so that none is left diverged; each forced push
\* carries the winning side's tip of one branch to the losing side, and no
\* branch is force-pushed twice.
C11_OneForcePushPerDivergedBranch ==
    \A t \in Tasks :
       (Undisturbed(t) /\ settings.conflict_resolution \in {"github_wins", "gitea_wins"}) =>
          /\ RefDiverged(t.repo) = {}
          /\ \A i \in Forced(t) :
                /\ t.issued[i].to = Other(Winner)
                /\ \A u \in t.issued[i].updates :
                      /\ u.kind = "tracking"
                      /\ u.ref \in Branches =>
                            u.commit = remote[Winner][t.repo].heads[u.ref]
          /\ \A i, j \in Forced(t) :
                t.issued[i].updates = t.issued[j].updates => i = j

\* Branch b of repository r is on one platform only, or its tip on one
\* platform is a strict ancestor of its tip on the other.
Lagging(r, b) ==
    LET g == remote.github[r].heads[b]
        t == remote.gitea[r].heads[b]
    IN  g # t /\ (g = NoRef \/ t = NoRef \/ g \in Reach(t) \/ t \in Reach(g))

\* C12: after every successful sync of a repository that is on both
\* platforms no branch is left on one side only or behind on one side: the
\* ahead side's ref was pushed, also when other branches were diverged and
\* were resolved by github_wins or gitea_wins.
C12_AheadBranchesAlwaysPushed ==
    \A t \in Tasks :
       (t.outcome = "returned" /\ t.result.action \in {"synced", "conflict_resolved"}) =>
          \A b \in Branches : ~Lagging(t.repo, b)

\* An attempt in state t ends by this step, in state u.
Ends(t, u) ==
    /\ t.pc \in {"gitea", "create"}
    /\ u.pc = "done"
    /\ u.outcome \in RealOutcomes
    /\ tasks' = Replace(t, u)

\* The names the analysis has for diverged: the diverged branches, and HEAD
\* next to a diverged default branch when the clone has both HEAD refs.
DivergedNames(r) ==
    RefDiverged(r) \cup (IF DefaultBranch \in RefDiverged(r) /\ gitenv.fetch_head
                         THEN {HeadRef} ELSE {})

\* C13: every forced push of an attempt is made under github_wins or
\* gitea_wins and is the push of one name classified as diverged, never of a
\* tag; no forced push follows a push that was not forced; and a push that
\* is refused ends the attempt as failed.
C13_ForceOnlyForDivergedUnderPolicy ==
    [][\A t \in Tasks, u \in BagToSet(tasks') :
          Ends(t, u) =>
             /\ \A i \in Forced(u) :
                   /\ settings.conflict_resolution \in {"github_wins", "gitea_wins"}
                   /\ \A up \in u.issued[i].updates :
                         up.kind = "tracking" /\ up.ref \in DivergedNames(t.repo)
                   /\ \A j \in 1..(i - 1) : u.issued[j].force
             /\ u.err.kind = "git" =>
                   /\ u.outcome = "raised_error"
                   /\ records'[t.repo].sync_status = "failed"]_vars

\* Under a winning-side policy an attempt force-pushed the diverged main and
\* left alone dev, which differs on the two sides without being diverged.
C13_Witness ==
    \E t \in Tasks :
       /\ t.outcome = "returned"
       /\ Forced(t) # {}
       /\ \A i \in Forced(t) : \A up \in t.issued[i].updates : up.ref = "main"
       /\ remote.github[t.repo].heads["dev"] # remote.gitea[t.repo].heads["dev"]

(***************************************************************************)
(* SpecRefs: one attempt on repository a, which is on both platforms, over *)
(* every placement of its branches in the commit graph.                   *)
(***************************************************************************)
BranchStates == [exists : {TRUE}, heads : [Branches -> Commits \cup {NoRef}], tags : {NoTags}]

InitRefs ==
    /\ settings \in [conflict_resolution : Policies, max_concurrent_syncs : {1},
                     sync_tags : {FALSE}, included : {{}}, excluded : {{}},
                     sync_interval : {1}, retry_delay : {1}]
    /\ gitenv \in [fetch_head : BOOLEAN, broken : {{}}]
    /\ clock = 0
    /\ \E gh \in BranchStates, gt \in BranchStates :
          remote = RemoteOf([a |-> Repo(gh, gt), b |-> Repo(Absent, Absent)])
    /\ records = [r \in Repos |-> NoRecord]
    /\ log = <<>>
    /\ conflicts = {}
    /\ tasks = SetToBag({NewTask("a", "gitea", "direct", 0)})
    /\ calls = <<>>
    /\ healthy = TRUE
    /\ sched = NoLoop

NextRefs == Attempt(NoFaults, NoNetFailure, OneOrder)

SpecRefs == InitRefs /\ [][NextRefs]_vars

\* What the analysis finds in repository r as it stands.
Analysis(r) == AnalyzeRepositoryDifferences(OriginRefs(Rp(r)), GiteaRefs(Rp(r)))

\* C14: for every branch on both platforms the analysis agrees with the
\* ancestry of the two tips: equal tips are in no list; a tip that is a
\* strict descendant of the other puts the branch in the ahead list of its
\* side alone; two tips of which neither is an ancestor of the other put it
\* in diverged_branches alone; has_conflicts is true exactly when
\* diverged_branches is not empty; and the conflict an attempt raises names
\* the diverged branches.
C14_AnalysisMatchesAncestry ==
    /\ \A r \in Repos :
          LET d == Analysis(r)
          IN  /\ d.has_conflicts <=> d.diverged_branches # {}
              /\ \A b \in Branches :
                    LET g == remote.github[r].heads[b]
                        t == remote.gitea[r].heads[b]
                        lists == {x \in {"github_ahead", "gitea_ahead", "diverged_branches"} :
                                     b \in d[x]}
                    IN  (g # NoRef /\ t # NoRef) =>
                           lists = IF g = t THEN {}
                                   ELSE IF t \in Reach(g) THEN {"github_ahead"}
                                   ELSE IF g \in Reach(t) THEN {"gitea_ahead"}
                                   ELSE {"diverged_branches"}
    /\ \A t \in Tasks :
          t.outcome = "raised_conflict" =>
             t.err.branches \cap Branches = RefDiverged(t.repo)

\* An attempt raised the conflict for main, whose tips c4 and c3 have
\* forked, while dev is ahead on GitHub by the merge c5 of Gitea's tip c3.
C14_Witness ==
    \E t \in Tasks :
       /\ t.outcome = "raised_conflict"
       /\ t.err.branches \cap Branches = {"main"}
       /\ remote.github[t.repo].heads = [dev |-> "c5", main |-> "c4"]
       /\ remote.gitea[t.repo].heads = [dev |-> "c3", main |-> "c3"]
       /\ "dev" \in Analysis(t.repo).github_ahead

\* The tip of branch b of repository r on one platform is a strict ancestor
\* of its tip on the other.
Behind(r, b) ==
    LET g == remote.github[r].heads[b]
        t == remote.gitea[r].heads[b]
    IN  g # NoRef /\ t # NoRef /\ g # t /\ (g \in Reach(t) \/ t \in Reach(g))

\* The attempt found the repository on both platforms.
BothFound(t) == t.gh = "found" /\ t.clone = Absent /\ remote.gitea[t.repo].exists

\* C15: an undisturbed attempt on a repository that is on both platforms,
\* unless it raises the conflict, leaves no branch whose tip on one side is
\* a strict ancestor of its tip on the other (the descendant tip has been
\* pushed), and it has pushed no branch tip from the side that was behind.
C15_BehindSideIsFastForwarded ==
    \A t \in Tasks :
       (Undisturbed(t) /\ BothFound(t) /\ t.outcome # "raised_conflict") =>
          /\ \A b \in Branches : ~Behind(t.repo, b)
          /\ \A i \in 1..Len(t.issued) : \A up \in t.issued[i].updates :
                (up.kind = "tracking" /\ ~t.issued[i].force /\ up.ref \in Branches) =>
                    remote[Other(t.issued[i].to)][t.repo].heads[up.ref] = up.commit

\* C16: the step in which an attempt succeeds leaves the record with status
\* `synced`, appends exactly one row to the log, a `success` row for the
\* repository whose details are the attempt's action result, and returns
\* that same result to the caller.
C16_SuccessIsMarkedLoggedAndReturned ==
    [][\A t \in Tasks, u \in BagToSet(tasks') :
          (Ends(t, u) /\ u.err = NoError) =>
             /\ u.outcome = "returned"
             /\ u.result.action \in {"synced", "conflict_resolved",
                                     "created_gitea", "created_github"}
             /\ records'[t.repo].present
             /\ records'[t.repo].sync_status = "synced"
             /\ log' = Append(log, [repository_name |-> t.repo,
                                    sync_status |-> "success",
                                    details |-> u.result, source |-> "null",
                                    timestamp |-> clock])]_vars

\* A sync that resolved the diverged main by policy has returned its action
\* list, and the last row of the log carries it.
C16_Witness ==
    \E t \in Tasks :
       /\ t.outcome = "returned"
       /\ t.result.action = "conflict_resolved"
       /\ t.result.details # <<>>
       /\ records[t.repo].sync_status = "synced"
       /\ log # <<>>
       /\ log[Len(log)].sync_status = "success"
       /\ log[Len(log)].details = t.result

\* C17: an attempt that ended with a failure other than a conflict (a
\* platform query that raised, a clone that failed, a refused or failed
\* push) has left a record of its repository with status `failed` and a
\* `failed` row as the last row of the log, also when it was the first
\* attempt for a repository that had no record.
C17_FailureIsMarkedAndLogged ==
    \A t \in Tasks :
       t.outcome = "raised_error" =>
          /\ records[t.repo].present
          /\ records[t.repo].sync_status = "failed"
          /\ log # <<>>
          /\ log[Len(log)].repository_name = t.repo
          /\ log[Len(log)].sync_status = "failed"

\* C18: when both platform queries answered that the repository does not
\* exist, the attempt ends with the not-found error, having cloned nothing
\* and pushed nothing, and no repository has been created on either side.
C18_NotFoundBeforeAnyGitWork ==
    [][\A t \in Tasks, u \in BagToSet(tasks') :
          (/\ Ends(t, u)
           /\ t.pc = "gitea"
           /\ t.gh = "missing"
           /\ ~remote.gitea[t.repo].exists
           /\ u.err.kind # "api") =>
             /\ u.outcome = "raised_error"
             /\ u.err.kind = "not_found"
             /\ u.clone = Absent
             /\ u.issued = <<>>
             /\ remote' = remote]_vars

\* An attempt for a repository that is on neither platform has ended with
\* the not-found error.
C18_Witness ==
    \E t \in Tasks :
       /\ t.pc = "done"
       /\ t.gh = "missing"
       /\ t.err.kind = "not_found"
       /\ ~remote.github[t.repo].exists
       /\ ~remote.gitea[t.repo].exists
       /\ records[t.repo].sync_status = "failed"

\* C19: an attempt that returned created_gitea or created_github has left
\* on the new repository every branch and every tag of the existing one, at
\* the same commits, and the record `synced`.
C19_CreationCopiesAllRefs ==
    \A t \in Tasks :
       (t.outcome = "returned"
          /\ t.result.action \in {"created_gitea", "created_github"}) =>
          /\ remote.gitea[t.repo].exists /\ remote.github[t.repo].exists
          /\ remote.gitea[t.repo].heads = remote.github[t.repo].heads
          /\ remote.gitea[t.repo].tags = remote.github[t.repo].tags
          /\ records[t.repo].sync_status = "synced"

\* C20: no repository sync of a scheduled whole-fleet sync that had begun
\* (it was past the semaphore, its record marked `syncing`) is ended by
\* stop(): every such sync ends returned, raised_conflict or raised_error,
\* with its terminal status and its log row written.
C20_StopLetsInFlightSyncsFinish ==
    \A t \in Tasks :
       (t.via = "fleet" /\ t.pc = "done" /\ t.err.kind # "cancelled_waiting") =>
          /\ t.outcome \in RealOutcomes
          /\ t.err.kind # "cancelled_in_flight"

(***************************************************************************)
(* The scheduler                                                           *)
(***************************************************************************)
\* The state but for the scheduler.
Service == <<settings, gitenv, clock, remote, records, log, conflicts, tasks, calls, healthy>>

\* C21: at most one scheduler loop task is alive, and it is alive exactly
\* while the scheduler is running; a call of start() on a running scheduler
\* creates no loop task and changes nothing: not the scheduler's state,
\* the running loop's position and locals, or anything else.
C21_StartIsIdempotent ==
    [][/\ sched'.live <= 1
       /\ sched'.running <=> sched'.live = 1
       /\ (sched.running /\ sched'.starts = sched.starts + 1) =>
             /\ sched' = [sched EXCEPT !.starts = @ + 1]
             /\ UNCHANGED Service]_vars

\* start() was called on a scheduler whose loop is inside a scheduled
\* whole-fleet sync, and there is one loop task.
C21_Witness ==
    /\ sched.starts >= 2
    /\ sched.running
    /\ sched.live = 1
    /\ sched.loop = "sync"
    /\ calls[sched.call].pc # "done"

SpecLoopFair ==
    /\ InitLoop
    /\ [][NextLoop]_vars
    /\ WF_vars(Tick(MaxClock))
    /\ WF_vars(SchedRetryOver)
    /\ WF_vars(SchedNotDue)
    /\ WF_vars(Len(calls) < MaxSyncs /\ SchedStartSync)

\* C23: the step in which a scheduled whole-fleet sync raises leaves the
\* loop alive in its retry sleep, which ends retry_delay later, with
\* last_sync_time as it was; and from the retry sleep the loop comes to call
\* sync_repositories() again unless the scheduler is stopped (as long as
\* the bounds on the clock and on the number of calls leave room for it).
C23_FailedSyncIsRetried ==
    /\ [][(sched.loop = "sync" /\ calls'[sched.call].outcome = "raised") =>
             /\ sched'.running /\ sched'.live = 1
             /\ sched'.loop = "retry"
             /\ sched'.until = clock + settings.retry_delay
             /\ sched'.last = sched.last]_vars
    /\ [](\A n \in 0..MaxSyncs :
            (/\ sched.loop = "retry"
             /\ Len(calls) = n
             /\ n < MaxSyncs
             /\ sched.until + PollSleep <= MaxClock)
               => <>(~sched.running \/ (sched.loop = "sync" /\ Len(calls) > n)))

\* After a scheduled sync that raised, the loop is inside the next one,
\* started less than a full interval after the failed one was due.
C23_Witness ==
    /\ sched.running
    /\ sched.loop = "sync"
    /\ sched.call = 2
    /\ calls[1].outcome = "raised"
    /\ sched.last = 0
    /\ sched.cur < 2 * settings.sync_interval

(***************************************************************************)
(* SpecDiscover: one whole-fleet sync_repositories() call, over every      *)
(* include-list and exclude-list and every placement of the repositories   *)
(* on the two platforms.                                                   *)
(***************************************************************************)
Placements == [Repos -> [github : BOOLEAN, gitea : BOOLEAN]]

Placed(pl) ==
    [r \in Repos |-> Repo(IF pl[r].github THEN Fleet["a"].github ELSE Absent,
                          IF pl[r].gitea THEN Fleet["a"].gitea ELSE Absent)]

InitDiscover ==
    /\ settings \in [conflict_resolution : {"github_wins"}, max_concurrent_syncs : {1},
                     sync_tags : {FALSE}, included : SUBSET Repos,
                     excluded : SUBSET Repos,
                     sync_interval : {2}, retry_delay : {1}]
    /\ gitenv \in [fetch_head : {FALSE}, broken : {{}}]
    /\ clock = 0
    /\ \E pl \in Placements : remote = RemoteOf(Placed(pl))
    /\ records = [r \in Repos |-> NoRecord]
    /\ log = <<>>
    /\ conflicts = {}
    /\ tasks = EmptyBag
    /\ calls = <<NewCall("manual")>>
    /\ healthy = TRUE
    /\ sched = NoLoop

NextDiscover == FleetSync \/ Attempt(NoFaults, NoNetFailure, OneOrder)

SpecDiscover == InitDiscover /\ [][NextDiscover]_vars

\* The names the claim describes: on GitHub or on Gitea, in the include-list
\* when there is one, and not in the exclude-list.
Expected ==
    {r \in Repos :
        /\ remote.github[r].exists \/ remote.gitea[r].exists
        /\ settings.included # {} => r \in settings.included
        /\ r \notin settings.excluded}

\* C24: when the Gitea listing has answered, the discovery has come to
\* exactly the expected names: the call returns at once when there is none,
\* and else gathers exactly one sync task for each of them.
C24_DiscoveryIsFilteredUnion ==
    [][\A c \in 1..Len(calls) :
          (calls[c].pc = "list_gitea" /\ calls'[c].outcome # "raised"
             /\ calls'[c] # calls[c]) =>
             /\ Expected = {} <=> calls'[c].pc = "done"
             /\ calls'[c].names = Expected
             /\ \A t \in BagToSet(tasks') : tasks'[t] = 1
             /\ {t.repo : t \in {u \in BagToSet(tasks') : u.call = c}} = Expected]_vars

\* A discovery left out a repository that is in both lists and on a
\* platform, and kept one that is on both platforms.
C24_Witness ==
    \E c \in 1..Len(calls), r, q \in Repos :
       /\ calls[c].pc = "gather"
       /\ r \in settings.included \cap settings.excluded
       /\ remote.github[r].exists
       /\ r \notin calls[c].names
       /\ q \in calls[c].names
       /\ remote.github[q].exists /\ remote.gitea[q].exists
       /\ Cardinality({t \in Children(c) : t.repo = q}) = 1

\* An attempt on repository r ends in this step by raising the conflict.
EndsInConflict(r) ==
    \E t \in Tasks, u \in BagToSet(tasks') :
       /\ t.repo = r /\ t.pc # "done"
       /\ u.pc = "done" /\ u.outcome = "raised_conflict"
       /\ tasks' = Replace(t, u)

\* C25: in every step, whatever attempts are in flight, the conflict_count
\* of every record grows by one when an attempt on its repository ends in
\* conflict in that step, and else stays as it is.
C25_ConflictCountIsMonotonic ==
    [][\A r \in Repos :
          records'[r].conflict_count =
             records[r].conflict_count + (IF EndsInConflict(r) THEN 1 ELSE 0)]_vars

\* Two attempts on one repository have both ended in conflict, and its
\* record counts two.
C25_Witness ==
    \E r \in Repos :
       /\ records[r].conflict_count = 2
       /\ BagCardinality(TasksIn({t \in Tasks : t.repo = r
                                     /\ t.outcome = "raised_conflict"})) = 2

\* The attempts on repository r that have written their log row.
Logged(r) == BagCardinality(TasksIn({t \in Tasks : t.repo = r /\ t.logged = 1}))

Origins == {"scheduled", "manual", "github", "gitea"}

\* C27: every row of the log names a trigger origin, and an attempt on the
\* row's repository that has written its row was triggered from there.
C27_LogRecordsTriggerOrigin ==
    \A i \in 1..Len(log) :
       /\ log[i].source \in Origins
       /\ \E t \in Tasks :
             /\ t.repo = log[i].repository_name
             /\ t.logged = 1
             /\ log[i].source = (IF t.via = "direct" THEN t.source
                                 ELSE calls[t.call].origin)

\* The tags of repository r that are on both sides at different commits.
TagDiverged(r) ==
    {g \in Tags : /\ remote.github[r].tags[g] # NoRef
                  /\ remote.gitea[r].tags[g] # NoRef
                  /\ remote.github[r].tags[g] # remote.gitea[r].tags[g]}

\* C28: an undisturbed attempt on a repository that is on both platforms
\* and has a tag at different commits on the two sides ends, under every
\* policy, by raising the conflict, which names the tag.
C28_DivergedTagIsSurfaced ==
    \A t \in Tasks :
       (Undisturbed(t) /\ BothFound(t) /\ TagDiverged(t.repo) # {}) =>
          /\ t.outcome = "raised_conflict"
          /\ TagDiverged(t.repo) \subseteq t.err.branches

\* C29: a scheduled whole-fleet sync is started only when sync_interval has
\* elapsed since last_sync_time; last_sync_time is the time the loop started
\* and then, when a scheduled sync returns, the time that sync was started;
\* nothing else changes it.  So the sync after one that returned starts no
\* earlier than a full interval after that one started, however long it ran.
C29_IntervalIsMeasuredFromSyncStart ==
    [][/\ (sched'.loop = "sync" /\ sched.loop # "sync") =>
             /\ clock - sched.last >= settings.sync_interval
             /\ calls'[sched'.call].at = clock
             /\ sched'.last = sched.last
       /\ (sched.loop = "sync" /\ calls'[sched.call].outcome = "returned") =>
             sched'.last = calls[sched.call].at
       /\ (~sched.running /\ sched'.running) => sched'.last = clock
       /\ (/\ sched.running /\ sched'.running
           /\ ~(sched.loop = "sync" /\ calls'[sched.call].outcome = "returned")) =>
             sched'.last = sched.last
       /\ \A c \in 1..Len(calls') :
             (c > 1 /\ calls'[c - 1].outcome = "returned") =>
                calls'[c].at - calls'[c - 1].at >= settings.sync_interval]_vars

\* The second scheduled sync was started exactly one interval after the
\* first, which returned and whose repository sync wrote its log row later
\* than the first sync was started.
C29_Witness ==
    /\ Len(calls) = 2
    /\ calls[1].outcome = "returned"
    /\ calls[2].at = calls[1].at + settings.sync_interval
    /\ sched.loop = "sync"
    /\ sched.last = calls[1].at
    /\ \E i \in 1..Len(log) : log[i].timestamp > calls[1].at
    /\ \A i \in 1..Len(log) : log[i].timestamp < calls[2].at


(***************************************************************************)
(* SpecBroken: one attempt on repository a, on both platforms, over every *)
(* placement of its branches, where the working clone may be unable to    *)
(* read the tip of one remote-tracking name.                              *)
(***************************************************************************)
InitBroken ==
    /\ settings \in [conflict_resolution : Policies, max_concurrent_syncs : {1},
                     sync_tags : {FALSE}, included : {{}}, excluded : {{}},
                     sync_interval : {1}, retry_delay : {1}]
    /\ gitenv \in [fetch_head : BOOLEAN, broken : {{}} \cup {{n} : n \in RefNames}]
    /\ clock = 0
    /\ \E gh \in BranchStates, gt \in BranchStates :
          remote = RemoteOf([a |-> Repo(gh, gt), b |-> Repo(Absent, Absent)])
    /\ records = [r \in Repos |-> NoRecord]
    /\ log = <<>>
    /\ conflicts = {}
    /\ tasks = SetToBag({NewTask("a", "gitea", "direct", 0)})
    /\ calls = <<>>
    /\ healthy = TRUE
    /\ sched = NoLoop

NextBroken == Attempt(NoFaults, NoNetFailure, OneOrder)

SpecBroken == InitBroken /\ [][NextBroken]_vars

\* The lists of the analysis of repository r that name b.
ListsOf(r, b) ==
    {x \in {"github_ahead", "gitea_ahead", "diverged_branches"} : b \in Analysis(r)[x]}

\* The list that the ancestry of the tips g and t calls for.
ByAncestry(g, t) ==
    IF g = t THEN {}
    ELSE IF t \in Reach(g) THEN {"github_ahead"}
    ELSE IF g \in Reach(t) THEN {"gitea_ahead"}
    ELSE {"diverged_branches"}

\* The names that both sets of remote-tracking refs of repository r hold.
OnBoth(r) ==
    {n \in RefNames : OriginRefs(Rp(r))[n] # NoRef /\ GiteaRefs(Rp(r))[n] # NoRef}

\* C30: a branch on both platforms whose comparison fails is in none of
\* github_ahead, gitea_ahead and diverged_branches and does not set
\* has_conflicts; every other branch on both platforms is in the list its
\* ancestry calls for, as without the failure; and the attempt goes on: the
\* conflict it raises names the diverged branches that could be compared.
C30_BrokenBranchIsSkipped ==
    /\ \A r \in Repos :
          LET Fits(n) == ByAncestry(OriginRefs(Rp(r))[n], GiteaRefs(Rp(r))[n])
          IN  /\ Analysis(r).has_conflicts <=>
                    (\E n \in OnBoth(r) \ gitenv.broken : Fits(n) = {"diverged_branches"})
              /\ \A n \in OnBoth(r) :
                    ListsOf(r, n) = IF n \in gitenv.broken THEN {} ELSE Fits(n)
    /\ \A t \in Tasks :
          t.outcome = "raised_conflict" =>
             /\ t.err.branches \cap gitenv.broken = {}
             /\ t.err.branches \cap Branches = RefDiverged(t.repo) \ gitenv.broken

\* Under policy manual the comparison of main, whose tips c4 and c3 have
\* forked, failed: the attempt ended without raising the conflict, having
\* pushed dev, which the analysis found ahead on one side.
C30_Witness ==
    \E t \in Tasks :
       /\ t.outcome \notin {"none", "raised_conflict"}
       /\ settings.conflict_resolution = "manual"
       /\ gitenv.broken = {"main"}
       /\ remote.github[t.repo].heads["main"] = "c4"
       /\ remote.gitea[t.repo].heads["main"] = "c3"
       /\ ~Analysis(t.repo).has_conflicts
       /\ \E i \in DOMAIN t.issued : \E up \in t.issued[i].updates : up.ref = "dev"

(***************************************************************************)
(* The whole-fleet sync and the triggers                                   *)
(***************************************************************************)
\* C31: the step in which a platform listing of a whole-fleet call fails
\* ends the call: it is raised to the caller (the health flag is cleared on
\* the way), no sync task is created, and no record, log row, conflict row
\* or ref is changed; the call is never taken up again, and no
\* sync_repository is ever dispatched for it.
C31_ListingFailureEndsTheCycle ==
    [][\A c \in 1..Len(calls) :
          /\ (calls[c].failed = "none" /\ calls'[c].failed # "none") =>
                /\ calls'[c].failed = Listing(c)
                /\ calls'[c].pc = "done"
                /\ calls'[c].outcome = "raised"
                /\ calls'[c].names = {}
                /\ ~healthy'
                /\ UNCHANGED <<tasks, records, log, conflicts, remote>>
          /\ calls[c].failed # "none" =>
                /\ calls'[c] = calls[c]
                /\ \A t \in BagToSet(tasks') : ~(t.via = "fleet" /\ t.call = c)]_vars

\* A manual whole-fleet sync got GitHub's list, with repositories in it,
\* failed on Gitea's and raised; there is no attempt and no log row.
C31_Witness ==
    \E c \in 1..Len(calls) :
       /\ calls[c].outcome = "raised"
       /\ calls[c].failed = "gitea"
       /\ calls[c].gh_names = {"a", "b"}
       /\ tasks = EmptyBag
       /\ log = <<>>
       /\ \A r \in Repos : records[r] = NoRecord
       /\ ~healthy

\* C32: an attempt that returned for a repository on both platforms has,
\* with tag sync enabled, left no tag on one side only, whether it was a
\* simple sync or one that resolved diverged branches by policy; with tag
\* sync disabled it has issued no push of a tag.
C32_TagsAreSyncedBothWays ==
    \A t \in Tasks :
       (t.outcome = "returned" /\ BothFound(t)) =>
          IF settings.sync_tags
          THEN \A g \in Tags :
                  (remote.github[t.repo].tags[g] = NoRef)
                     <=> (remote.gitea[t.repo].tags[g] = NoRef)
          ELSE \A i \in DOMAIN t.issued :
                  \A up \in t.issued[i].updates : up.kind # "tag"

(***************************************************************************)
(* SpecFilter: every trigger (webhooks, manual syncs with and without a    *)
(* name) over every include-list and exclude-list.                         *)
(***************************************************************************)
InitFilter ==
    /\ settings \in [conflict_resolution : {"github_wins"}, max_concurrent_syncs : {1},
                     sync_tags : {FALSE}, included : SUBSET Repos,
                     excluded : SUBSET Repos,
                     sync_interval : {2}, retry_delay : {1}]
    /\ gitenv \in [fetch_head : {FALSE}, broken : {{}}]
    /\ clock = 0
    /\ remote = RemoteOf(Fleet)
    /\ InitService

NextFilter == Trigger \/ Attempt(NoFaults, NoNetFailure, OneOrder) \/ FleetSync

SpecFilter == InitFilter /\ [][NextFilter]_vars

\* C33: the webhook filter accepts a name exactly when the discovery keeps
\* it, from whichever listing it comes; a webhook of any kind from either
\* platform for a name the filter rejects requires no sync, and one that
\* asks to be synced does for a name it accepts; so every attempt that a
\* webhook has dispatched is on a repository the discovery would keep.
C33_WebhookFilterMatchesDiscovery ==
    /\ \A name \in Repos :
          /\ ShouldSyncRepository(name) <=> name \in Discovered({name}, {})
          /\ ShouldSyncRepository(name) <=> name \in Discovered({}, {name})
          /\ \A side \in Sides, event \in WebhookEvents :
                /\ ~ShouldSyncRepository(name) => ~SyncRequired(side, name, event)
                /\ event \in {"push", "repository", "release"} =>
                      (SyncRequired(side, name, event) <=> ShouldSyncRepository(name))
    /\ \A t \in Tasks :
          t.via = "direct" => t.repo \in Discovered({t.repo}, {t.repo})

\* With b in the include-list and in the exclude-list, and a in the
\* include-list, webhooks of both platforms have dispatched attempts, all
\* of them on a.
C33_Witness ==
    /\ settings.included = {"a", "b"}
    /\ settings.excluded = {"b"}
    /\ \E t, u \in Tasks :
          /\ t.via = "direct" /\ t.source = "github" /\ t.repo = "a"
          /\ u.via = "direct" /\ u.source = "gitea" /\ u.repo = "a"
    /\ \A t \in Tasks : t.repo = "a"

(***************************************************************************)
(* SpecGateFair: one whole-fleet sync_repositories() call over the fleet,  *)
(* for every gate size, with a store whose calls may raise, on an event    *)
(* loop that runs every coroutine that is ready and platforms that answer  *)
(* every request in the end.                                               *)
(***************************************************************************)
\* At most one store call of an attempt raises.
OneFault == {{}} \cup {{p} : p \in FaultPoints}

NextGate ==
    \/ Used + Cardinality(Repos) <= MaxAttempts /\ ManualSyncAll
    \/ FleetSync
    \/ Attempt(OneFault, NoNetFailure, OneOrder)

SpecGateFair ==
    /\ Init
    /\ [][NextGate]_vars
    /\ WF_vars(FleetSync)
    /\ WF_vars(Attempt(OneFault, NoNetFailure, OneOrder))

\* The attempts of call c that hold the gate.
Holding(c) == BagCardinality(TasksIn({t \in Children(c) : t.pc \in InFlightPcs}))

\* C34: the attempts of one whole-fleet call that are between taking and
\* giving back the gate are never more than max_concurrent_syncs, and with
\* the free permits they make up the gate size, so that every attempt that
\* ended, however it ended, gave its permit back; and every discovered
\* repository's attempt comes to take the gate.
C34_GateIsBoundedAndFair ==
    /\ [](\A c \in 1..Len(calls) :
             calls[c].pc = "gather" =>
                /\ Holding(c) <= settings.max_concurrent_syncs
                /\ Holding(c) + calls[c].permits = settings.max_concurrent_syncs)
    /\ \A c \in 1..MaxAttempts, r \in Repos :
          [](c <= Len(calls) /\ r \in calls[c].names
                => <>(\E t \in Children(c) : t.repo = r /\ t.pc # "sem"))

\* With a gate of one, the attempt on a has ended by raising, and the
\* attempt on b, which had to wait for it, holds the gate.
C34_Witness ==
    /\ settings.max_concurrent_syncs = 1
    /\ \E t, u \in Children(1) :
          /\ t.repo = "a" /\ t.pc = "done" /\ t.outcome # "returned"
          /\ u.repo = "b" /\ u.pc \in InFlightPcs

\* C35: no attempt is ever begun, by whichever trigger, on a repository
\* that is in the exclude-list or is missing from a configured include-list.
C35_FilteredRepositoryIsNeverSynced ==
    \A t \in Tasks :
       t.pc \notin {"new", "sem"} =>
          /\ settings.included # {} => t.repo \in settings.included
          /\ t.repo \notin settings.excluded

\* C36: the health flag is cleared by nothing but a whole-fleet call that
\* raised: no attempt on one repository that ended in conflict or in failure
\* clears it, whether it ran inside a whole-fleet sync, through
\* sync_repositories(name) or as sync_repository(name) itself.
C36_RepositoryOutcomeKeepsHealth ==
    ~healthy => \E c \in 1..Len(calls) : calls[c].outcome = "raised"

\* C37: the health flag tells how the most recent sync_repositories() call
\* that ended has ended: it is true when that call returned, also when an
\* earlier call had raised.
C37_HealthFollowsLatestCall ==
    \A c \in 1..Len(calls) :
       (/\ calls[c].outcome = "returned"
        /\ \A d \in 1..Len(calls) : d > c => calls[d].outcome = "none") => healthy

\* The place of a push in the order of _perform_simple_sync.
Stage(cmd) ==
    IF cmd.label.act = "pushed_to_gitea" THEN 1
    ELSE IF cmd.label.act = "pushed_to_github" THEN 2
    ELSE IF cmd.label.act = "synced_to_gitea" THEN 3
    ELSE IF cmd.label.act = "synced_to_github" THEN 4
    ELSE 5

\* The commit that the ref named by update up is at in repository state st.
RefAt(st, up) ==
    IF up.kind = "tag" THEN st.tags[up.ref]
    ELSE IF up.ref \in Branches THEN st.heads[up.ref] ELSE NoRef

\* The refs of repository state st that the commands cmds going to `side`
\* do not name.
Untouched(st, st2, cmds, side) ==
    LET named(kind, ref) ==
           \E i \in DOMAIN cmds : \E up \in cmds[i].updates :
              /\ cmds[i].to = side
              /\ up.ref = ref
              /\ (up.kind = "tag") <=> (kind = "tag")
    IN  /\ \A b \in Branches : named("head", b) \/ st2.heads[b] = st.heads[b]
        /\ \A g \in Tags : named("tag", g) \/ st2.tags[g] = st.tags[g]

\* C38: in the step in which an attempt on a repository found on both
\* platforms without diverged branch runs its pushes, the pushes it issues
\* come in the order branches only on GitHub, branches only on Gitea,
\* GitHub-ahead, Gitea-ahead, tags; when one fails it is the last one
\* issued, the attempt raises and the record is `failed`; every push issued
\* before it, and every push of an attempt that returned, is in effect on
\* the platform afterwards; a push that failed in transport changed
\* nothing; and no ref that no issued push names has changed.
C38_SimpleSyncStopsAtFirstFailure ==
    [][\A t \in Tasks, u \in BagToSet(tasks') :
          (/\ t.pc = "gitea" /\ u.pc = "done" /\ tasks' = Replace(t, u)
           /\ t.gh = "found" /\ remote.gitea[t.repo].exists
           /\ ~Analysis(t.repo).has_conflicts
           /\ u.err.kind \in {"none", "net", "git"}) =>
             LET n == Len(u.issued)
                 failed == u.outcome # "returned"
                 r == t.repo
             IN  /\ \A i, j \in 1..n : i < j => Stage(u.issued[i]) <= Stage(u.issued[j])
                 /\ failed <=> u.err.kind \in {"net", "git"}
                 /\ failed => /\ n >= 1
                              /\ u.outcome = "raised_error"
                              /\ records'[r].sync_status = "failed"
                 /\ ~failed => records'[r].sync_status = "synced"
                 /\ \A i \in 1..n :
                       (i < n \/ ~failed) =>
                          \A up \in u.issued[i].updates :
                             RefAt(remote'[u.issued[i].to][r], up) = up.commit
                 /\ u.err.kind = "net" =>
                       \A up \in u.issued[n].updates :
                          \/ RefAt(remote'[u.issued[n].to][r], up)
                                = RefAt(remote[u.issued[n].to][r], up)
                          \/ \E i \in 1..(n - 1) : up \in u.issued[i].updates
                 /\ \A side \in Sides :
                       Untouched(remote[side][r], remote'[side][r], u.issued, side)]_vars

\* An attempt pushed dev, ahead on GitHub, to Gitea; its next push, of a
\* name ahead on Gitea, failed in transport: the attempt raised, the record
\* is `failed`, and dev on Gitea is where the first push put it.
C38_Witness ==
    \E t \in Tasks :
       /\ t.outcome = "raised_error"
       /\ t.err.kind = "net"
       /\ Len(t.issued) = 2
       /\ t.issued[1].label = [act |-> "synced_to_gitea", ref |-> "dev"]
       /\ t.issued[2].label.act = "synced_to_github"
       /\ remote.gitea[t.repo].heads["dev"] = "c2"
       /\ remote.github[t.repo].heads["main"] = "c1"
       /\ remote.gitea[t.repo].heads["main"] = "c3"
       /\ records[t.repo].sync_status = "failed"

(***************************************************************************)
(* SpecStamp: attempts triggered by GitHub's webhooks, with a status store  *)
(* of which one call per attempt may raise.                                *)
(***************************************************************************)
InitStamp ==
    /\ settings \in [conflict_resolution : Policies, max_concurrent_syncs : {1},
                     sync_tags : {TRUE}, included : {{}}, excluded : {{}},
                     sync_interval : {2}, retry_delay : {1}]
    /\ gitenv \in [fetch_head : {FALSE}, broken : {{}}]
    /\ clock = 0
    /\ remote = RemoteOf(Fleet)
    /\ InitService

NextStamp ==
    \/ \E name \in Repos, event \in WebhookEvents :
          Used + 1 <= MaxAttempts /\ Webhook("github", name, event)
    \/ Attempt(OneFault, NoNetFailure, OneOrder)

SpecStamp == InitStamp /\ [][NextStamp]_vars

\* The time of the most recent successful attempt on repository r: the time
\* its last `success` row was written (0: there is none).
LastSuccess(r) ==
    LET rows == {i \in 1..Len(log) : /\ log[i].repository_name = r
                                     /\ log[i].sync_status = "success"}
    IN  IF rows = {} THEN 0 ELSE CHOOSE i \in rows : \A j \in rows : j <= i

\* C39: the last_sync of every record is the time of the most recent
\* successful attempt on its repository, and null when none succeeded: it
\* is written by the update to `synced` of an attempt that succeeds, and
\* the updates to syncing, conflict and failed leave it as it is.
C39_LastSyncIsLastSuccess ==
    \A r \in Repos : records[r].last_sync = LastSuccess(r)

\* What does hold of last_sync, also with a store that fails: it is written
\* by the status update to `synced` and by nothing else.  It changes only in
\* the step in which an attempt on the
\* repository comes to that update, to the time of that step; the attempt
\* then returns with the record `synced`, unless the write of its log row
\* raises: then the attempt raises, with the new last_sync in a record that
\* is `failed` (or still `synced`, when the handler's status update raises
\* too).  The steps that mark the record syncing, conflict or failed leave
\* last_sync as it is, and it is never earlier than the most recent
\* successful attempt.
LastSyncWrittenBySyncedUpdate ==
    [][\A r \in Repos :
          /\ records'[r].last_sync # records[r].last_sync =>
                \E t \in Tasks, u \in BagToSet(tasks') :
                   /\ t.repo = r /\ t.pc # "done" /\ u.pc = "done"
                   /\ tasks' = Replace(t, u)
                   /\ records'[r].last_sync = Len(log) + 1
                   /\ \/ /\ u.outcome = "returned"
                         /\ records'[r].sync_status = "synced"
                         /\ LastSuccess(r)' = Len(log) + 1
                      \/ /\ u.outcome = "raised_error" /\ u.err.kind = "store"
                         /\ records'[r].sync_status \in {"failed", "synced"}
          /\ (\E t \in Tasks, u \in BagToSet(tasks') :
                 /\ t.repo = r /\ tasks' = Replace(t, u)
                 /\ u.outcome = "returned" /\ t.outcome = "none") =>
                records'[r].last_sync = LastSuccess(r)'
          /\ records'[r].last_sync >= LastSuccess(r)']_vars

(***************************************************************************)
(* SpecResolve: manual syncs of one repository under policy manual, and    *)
(* resolve_conflict calls at any time.                                     *)
(***************************************************************************)
InitResolve ==
    /\ settings \in [conflict_resolution : {"manual"}, max_concurrent_syncs : {1},
                     sync_tags : BOOLEAN, included : {{}}, excluded : {{}},
                     sync_interval : {2}, retry_delay : {1}]
    /\ gitenv \in [fetch_head : {FALSE}, broken : {{}}]
    /\ clock = 0
    /\ remote = RemoteOf(Fleet)
    /\ InitService

\* The manual syncs and the resolve_conflict calls so far.
Syncs == BagCardinality(TasksIn({t \in Tasks : t.via = "engine"}))
Resolves == BagCardinality(TasksIn({t \in Tasks : t.via = "resolve"}))

NextResolve ==
    \/ \E name \in Repos : Syncs < MaxAttempts /\ ManualSync(name)
    \/ Attempt(NoFaults, NoNetFailure, OneOrder)
    \/ \E name \in Repos, resolution \in Sides :
          Resolves < MaxResolves /\ ResolveConflict(name, resolution)

SpecResolve == InitResolve /\ [][NextResolve]_vars

\* C40: a step that answers a resolve_conflict call answers "resolved" and
\* leaves every record (status, conflict_count and the rest), the conflict
\* rows, the log, the refs of both platforms, the health flag and every
\* attempt as they are; so a record that is `conflict` stays `conflict`
\* through it.
C40_ResolveConflictChangesNothing ==
    [][Resolves' > Resolves =>
          /\ \E name \in Repos, resolution \in Sides :
                /\ tasks' = tasks (+) SetToBag({Resolved(name, resolution)})
                /\ Resolved(name, resolution).result.action = "resolved"
          /\ UNCHANGED <<records, conflicts, log, remote, healthy, calls, sched, settings>>
          /\ TasksIn({t \in Tasks : t.via # "resolve"})
                = [t \in {u \in BagToSet(tasks') : u.via # "resolve"} |-> tasks'[t]]]_vars

\* A manual sync of a has ended in conflict; resolve_conflict was then
\* called for a with each resolution: the record is still `conflict`, its
\* count is one and no ref has moved.
C40_Witness ==
    /\ records["a"].sync_status = "conflict"
    /\ records["a"].conflict_count = 1
    /\ \A side \in Sides : Resolved("a", side) \in Tasks
    /\ \E t \in Tasks : t.via = "engine" /\ t.repo = "a" /\ t.outcome = "raised_conflict"
    /\ remote = RemoteOf(Fleet)

=============================================================================
